---- MODULE Spec2Model ----
(***************************************************************************)
(* The path-validated filesystem access layer of s3-finder                 *)
(* (src-tauri/src/lib.rs): the path validator, the mutation commands, the  *)
(* directory lister, the recursive search and the file preview, over an    *)
(* explicit model of a POSIX filesystem with symbolic links.               *)
(*                                                                         *)
(* A file name is a sequence of one-character strings, a path the sequence *)
(* of its components (all paths are absolute; <<>> is "/").                *)
(***************************************************************************)
EXTENDS Integers, Sequences, FiniteSets, TLC

VARIABLES
    fs,        \* the filesystem: canonical path -> node
    homeDir,   \* what dirs::home_dir() returns in this process
    last,      \* the last command invoked: its name, arguments and result
    steps,     \* number of commands invoked so far
    calls,     \* the commands running concurrently: call -> where it stands
    ui         \* the browser window's signals (src/app.rs)

vars == <<fs, homeDir, last, steps, calls, ui>>

\* no window is open
NoUi == <<>>

\* no command is under way
NoCalls == <<>>

-----------------------------------------------------------------------------
(* Bounds of the model.                                                    *)

\* commands invoked in one behaviour
MaxOps == 2
\* symbolic links followed while resolving one path (ELOOP beyond it)
MaxLinks == 3
\* commands running at the same time
MaxCalls == 2
\* components of the longest path the filesystem accepts (ENAMETOOLONG beyond it)
MaxPathLen == 5

-----------------------------------------------------------------------------
(* Names.                                                                  *)

Slash == "/"
Backslash == "\\"
DotName == <<".">>
DotDot == <<".", ".">>
EmptyName == <<>>

nHome == <<"h", "o", "m", "e">>
nU == <<"u">>
nH == <<"h">>
nEtc == <<"e", "t", "c">>
nOpt == <<"o", "p", "t">>
nUsr == <<"u", "s", "r">>
nLocal == <<"l", "o", "c", "a", "l">>
nSystem == <<"S", "y", "s", "t", "e", "m">>
nApplications == <<"A", "p", "p", "l", "i", "c", "a", "t", "i", "o", "n", "s">>
nA == <<"a">>
nX == <<"x">>
nLnk == <<"l", "n", "k">>
nPw == <<"p", "w">>
nTool == <<"t">>
nFtxt == <<"f", ".", "t", "x", "t">>
nEvil == <<".", ".", "/", "e">>
nBack == <<"a", "\\", "b">>
nNope == <<"n", "o">>
nDl == <<"d", "l">>
nGone == <<"g", "o", "n", "e">>

-----------------------------------------------------------------------------
(* Results: Rust's Result<T, String>.                                      *)

Ok(v) == [ok |-> TRUE, val |-> v, err |-> ""]
Err(e) == [ok |-> FALSE, val |-> <<>>, err |-> e]

\* the error strings of lib.rs, named by the error kind they stand for
InvalidPath == "Invalid or inaccessible path"
ConfigurationError == "Cannot determine home directory"
AccessDenied == "Access denied: Path is outside allowed directories"
WriteDenied == "Write access denied: Only home directory is writable"
NotADirectory == "Path is not a directory"
NotAFile == "Path is not a file"
InvalidFolderName == "Invalid folder name"
InvalidFileName == "Invalid file name"
FolderExists == "Folder already exists"
ItemExists == "An item with this name already exists"
DestItemExists == "An item with this name already exists in destination"
SourceMissing == "Source item does not exist"
DestMissing == "Destination directory does not exist"
NoParent == "Cannot determine parent directory"
NoFileName == "Cannot determine file name"
ItemMissing == "Item does not exist"
EmptyQuery == "Search query cannot be empty"
TooLarge == "File too large for preview (max 10MB)"
UnsupportedType == "File type not supported for preview"
IoFailure == "Failed"

-----------------------------------------------------------------------------
(* The filesystem.                                                         *)

\* a directory holds its entries' names in the order read_dir yields them
DirNode(es) == [kind |-> "dir", target |-> <<>>, size |-> 0, data |-> <<>>, entries |-> es]
\* a symbolic link to the absolute path t; its length is that of the path string
RECURSIVE PathStrLen(_)
PathStrLen(p) == IF p = <<>> THEN 0 ELSE 1 + Len(Head(p)) + PathStrLen(Tail(p))

LinkNode(t) ==
    [kind |-> "link", target |-> t, size |-> PathStrLen(t), data |-> <<>>, entries |-> <<>>]
\* a regular file of `size` bytes: the bytes `data`, then zero bytes
FileNode(size, data) ==
    [kind |-> "file", target |-> <<>>, size |-> size, data |-> data, entries |-> <<>>]

\* an entry whose inode cannot be read: the directory lists its name, and
\* stat(2) and lstat(2) on it fail (EIO, ESTALE)
StaleNode ==
    [kind |-> "stale", target |-> <<>>, size |-> 0, data |-> <<>>, entries |-> <<>>]

\* a directory the process may neither open nor pass through (EACCES): stat(2)
\* on it succeeds
LockedNode(es) ==
    [kind |-> "locked", target |-> <<>>, size |-> 0, data |-> <<>>, entries |-> es]

IsPrefix(p, q) == Len(p) <= Len(q) /\ SubSeq(q, 1, Len(p)) = p

\* Path::starts_with: component-wise prefix
StartsWith(path, base) == IsPrefix(base, path)

\* Path::parent
Parent(p) == IF p = <<>> THEN <<>> ELSE SubSeq(p, 1, Len(p) - 1)

Last(p) == p[Len(p)]

\* a path the system calls accept (ENAMETOOLONG otherwise)
FsPathOk(p) == Len(p) <= MaxPathLen

\* realpath(3): follow every component of `rest` from the canonical directory `cur`
RECURSIVE Walk(_, _, _, _)
Walk(f, cur, rest, fuel) ==
    IF rest = <<>> THEN Ok(cur)
    ELSE LET c == Head(rest)
             q == Append(cur, c)
         IN  IF c = DotDot THEN Walk(f, Parent(cur), Tail(rest), fuel)
             ELSE IF q \notin DOMAIN f THEN Err("ENOENT")
             ELSE IF f[q].kind = "stale" THEN Err("EIO")
             ELSE IF f[q].kind = "link"
                  THEN IF fuel = 0 THEN Err("ELOOP")
                       ELSE Walk(f, <<>>, f[q].target \o Tail(rest), fuel - 1)
             ELSE IF f[q].kind = "file" /\ Tail(rest) # <<>> THEN Err("ENOTDIR")
             ELSE IF f[q].kind = "locked" /\ Tail(rest) # <<>> THEN Err("EACCES")
             ELSE Walk(f, q, Tail(rest), fuel)

\* Path::canonicalize
Canonicalize(f, p) ==
    IF FsPathOk(p) THEN Walk(f, <<>>, p, MaxLinks) ELSE Err("ENAMETOOLONG")

\* where the entry `p` names lives, its own last component not followed (lstat)
LCanon(f, p) ==
    IF p = <<>> \/ Last(p) = DotDot THEN Canonicalize(f, p)
    ELSE LET d == Canonicalize(f, Parent(p))
         IN  IF ~d.ok THEN d
             ELSE IF f[d.val].kind # "dir" THEN Err("ENOTDIR")
             ELSE Ok(Append(d.val, Last(p)))

\* Path::exists, Path::is_dir, Path::is_file: all follow symbolic links
Exists(f, p) == Canonicalize(f, p).ok
IsDir(f, p) == LET c == Canonicalize(f, p) IN c.ok /\ f[c.val].kind \in {"dir", "locked"}
IsFile(f, p) == LET c == Canonicalize(f, p) IN c.ok /\ f[c.val].kind = "file"

\* the entry exists, be it a dangling link (lstat succeeds)
LExists(f, p) ==
    LET l == LCanon(f, p) IN l.ok /\ l.val \in DOMAIN f /\ f[l.val].kind # "stale"

\* the entries at and below canonical path p
Subtree(f, p) == {q \in DOMAIN f : IsPrefix(p, q)}

\* the sequence s without the element x
Remove(s, x) == SelectSeq(s, LAMBDA n : n # x)

\* the filesystem with `node` at canonical path p (a new name is appended to
\* its directory, an existing entry is overwritten in place)
Link(f, p, node) ==
    LET g == IF p \in DOMAIN f THEN f
             ELSE [f EXCEPT ![Parent(p)].entries = Append(@, Last(p))]
    IN  (p :> node) @@ g

\* the filesystem without the entry at canonical path p and all below it
Unlink(f, p) ==
    [q \in DOMAIN f \ Subtree(f, p) |->
        IF q = Parent(p) THEN [f[q] EXCEPT !.entries = Remove(@, Last(p))] ELSE f[q]]

\* the volume a canonical path is on: /opt is a mount point
Volume(p) == IF StartsWith(p, <<nOpt>>) THEN "opt" ELSE "root"

\* a mkdir that is content with a directory already there
create_dir_if_missing(f, p) ==
    LET l == LCanon(f, p)
    IN  IF ~l.ok THEN [fs |-> f, res |-> Err(IoFailure)]
        ELSE IF l.val \in DOMAIN f
        THEN [fs |-> f, res |-> IF f[l.val].kind = "dir" THEN Ok(l.val) ELSE Err(IoFailure)]
        ELSE [fs |-> Link(f, l.val, DirNode(<<>>)), res |-> Ok(l.val)]

\* mkdir(2)
create_dir(f, p) ==
    LET l == LCanon(f, p)
    IN  IF ~l.ok THEN [fs |-> f, res |-> Err(IoFailure)]
        ELSE IF l.val \in DOMAIN f THEN [fs |-> f, res |-> Err(IoFailure)]
        ELSE [fs |-> Link(f, l.val, DirNode(<<>>)), res |-> Ok(l.val)]

\* fs::create_dir_all
RECURSIVE create_dir_all(_, _)
create_dir_all(f, p) ==
    IF IsDir(f, p) THEN [fs |-> f, res |-> Ok(p)]
    ELSE IF p = <<>> \/ ~FsPathOk(p) THEN [fs |-> f, res |-> Err(IoFailure)]
    ELSE LET up == create_dir_all(f, Parent(p))
         IN  IF ~up.res.ok THEN up ELSE create_dir(up.fs, p)

\* fs::remove_dir_all on a canonical path: the directory and all below it
remove_dir_all(f, p) ==
    IF p \in DOMAIN f /\ p # <<>> /\ f[p].kind # "locked"
    THEN [fs |-> Unlink(f, p), res |-> Ok(p)]
    ELSE [fs |-> f, res |-> Err(IoFailure)]

\* fs::remove_file (unlink(2)) on a canonical path
remove_file(f, p) ==
    IF p \in DOMAIN f /\ f[p].kind # "dir"
    THEN [fs |-> Unlink(f, p), res |-> Ok(p)]
    ELSE [fs |-> f, res |-> Err(IoFailure)]

\* fs::rename (rename(2)): neither last component is followed; an existing
\* destination is replaced when it is a non-directory (and the source is one)
\* or an empty directory (and the source is a directory); EXDEV across volumes
rename(f, old, new) ==
    LET lo == LCanon(f, old)
        ln == LCanon(f, new)
        fail == [fs |-> f, res |-> Err(IoFailure)]
    IN  IF ~lo.ok \/ ~ln.ok THEN fail
        ELSE IF lo.val \notin DOMAIN f \/ lo.val = <<>> THEN fail
        ELSE IF lo.val = ln.val THEN [fs |-> f, res |-> Ok(ln.val)]
        ELSE IF IsPrefix(lo.val, ln.val) \/ IsPrefix(ln.val, lo.val) THEN fail
        ELSE IF Volume(lo.val) # Volume(ln.val) THEN fail
        ELSE IF ln.val \in DOMAIN f
                /\ \/ (f[ln.val].kind = "dir") # (f[lo.val].kind = "dir")
                   \/ Subtree(f, ln.val) # {ln.val}
             THEN fail
        ELSE LET below == Subtree(f, lo.val) \ {lo.val}
                 To(q) == ln.val \o SubSeq(q, Len(lo.val) + 1, Len(q))
                 g == Link(Unlink(f, lo.val), ln.val, f[lo.val])
             IN  [fs |-> [q \in {To(m) : m \in below} |->
                            f[CHOOSE m \in below : To(m) = q]] @@ g,
                  res |-> Ok(ln.val)]

\* the file an open(2) for writing with O_CREAT creates or truncates:
\* a symbolic link at the path is followed
RECURSIVE OpenForWrite(_, _, _)
OpenForWrite(f, p, fuel) ==
    LET l == LCanon(f, p)
    IN  IF ~l.ok THEN l
        ELSE IF l.val \notin DOMAIN f THEN l
        ELSE IF f[l.val].kind = "dir" THEN Err("EISDIR")
        ELSE IF f[l.val].kind = "file" THEN l
        ELSE IF fuel = 0 THEN Err("ELOOP")
        ELSE OpenForWrite(f, f[l.val].target, fuel - 1)

\* fs::copy: the source is followed and must be a regular file
copy(f, src, dst) ==
    LET s == Canonicalize(f, src)
        d == OpenForWrite(f, dst, MaxLinks)
    IN  IF ~s.ok \/ ~d.ok THEN [fs |-> f, res |-> Err(IoFailure)]
        ELSE IF f[s.val].kind # "file" THEN [fs |-> f, res |-> Err(IoFailure)]
        ELSE [fs |-> Link(f, d.val, f[s.val]), res |-> Ok(d.val)]

-----------------------------------------------------------------------------
(* Strings and paths as the standard library handles them.                 *)

None == <<>>
Some(v) == <<v>>

\* the printable ASCII characters, in code order from 32 ("<96>" holds the
\* place of the backquote, which a TLA+ string cannot hold)
Ascii ==
    <<" ", "!", "\"", "#", "$", "%", "&", "'", "(", ")", "*", "+", ",", "-", ".", "/",
      "0", "1", "2", "3", "4", "5", "6", "7", "8", "9", ":", ";", "<", "=", ">", "?",
      "@", "A", "B", "C", "D", "E", "F", "G", "H", "I", "J", "K", "L", "M", "N", "O",
      "P", "Q", "R", "S", "T", "U", "V", "W", "X", "Y", "Z", "[", "\\", "]", "^", "_",
      "<96>", "a", "b", "c", "d", "e", "f", "g", "h", "i", "j", "k", "l", "m", "n", "o",
      "p", "q", "r", "s", "t", "u", "v", "w", "x", "y", "z", "{", "|", "}", "~">>

\* the code of each character
RECURSIVE CodeTable(_)
CodeTable(n) == IF n = 0 THEN <<>> ELSE (Ascii[n] :> 31 + n) @@ CodeTable(n - 1)

CodeOf == CodeTable(Len(Ascii))

\* char::to_lowercase on ASCII: the letters A to Z move up by 32
RECURSIVE LowerTable(_)
LowerTable(n) ==
    IF n = 0 THEN <<>>
    ELSE (Ascii[n] :> IF 31 + n >= CodeOf["A"] /\ 31 + n <= CodeOf["Z"]
                      THEN Ascii[n + 32] ELSE Ascii[n])
         @@ LowerTable(n - 1)

LowerOf == LowerTable(Len(Ascii))

LowerChar(c) == IF c \in DOMAIN LowerOf THEN LowerOf[c] ELSE c

\* str::to_lowercase
to_lowercase(str) == SubSeq([i \in 1..Len(str) |-> LowerChar(str[i])], 1, Len(str))

\* str::contains(char)
ContainsChar(str, c) == \E i \in 1..Len(str) : str[i] = c

\* str::contains(&str)
Contains(str, pat) ==
    \E i \in 1..(Len(str) - Len(pat) + 1) : SubSeq(str, i, i + Len(pat) - 1) = pat

\* char::is_whitespace, on the characters of the model
IsWhitespace(c) == c \in {" ", "\t", "\n"}

\* a test for the empty string in place of str::trim().is_empty()
TrimIsEmpty_untrimmed(str) == str = <<>>

\* str::trim().is_empty()
TrimIsEmpty(str) == \A i \in 1..Len(str) : IsWhitespace(str[i])

\* the pieces of str between occurrences of sep (str::split), cur being the
\* piece under way
RECURSIVE SplitFrom(_, _, _)
SplitFrom(str, sep, cur) ==
    IF str = <<>> THEN <<cur>>
    ELSE IF Head(str) = sep THEN <<cur>> \o SplitFrom(Tail(str), sep, <<>>)
    ELSE SplitFrom(Tail(str), sep, Append(cur, Head(str)))

Split(str, sep) == SplitFrom(str, sep, <<>>)

\* Path::components of a relative path string: empty pieces and "." are dropped
Components(str) == SelectSeq(Split(str, Slash), LAMBDA c : c # <<>> /\ c # DotName)

\* Path::join: an absolute argument replaces the path
Join(base, name) ==
    IF name # <<>> /\ Head(name) = Slash THEN Components(name)
    ELSE base \o Components(name)

\* Path::file_name: none for the root and for a path ending in ".."
file_name(p) == IF p = <<>> \/ Last(p) = DotDot THEN None ELSE Some(Last(p))

-----------------------------------------------------------------------------
(* The path validator.                                                     *)

\* lib.rs: allowed_system_paths
allowed_system_paths ==
    {<<nApplications>>, <<nSystem, nApplications>>, <<nUsr, nLocal>>, <<nOpt>>}

\* a validator that canonicalizes the path but compares it as it was written
validate_path_as_written(f, home, path) ==
    LET canonical == Canonicalize(f, path)
    IN  IF ~canonical.ok THEN Err(InvalidPath)
        ELSE IF home = None THEN Err(ConfigurationError)
        ELSE IF StartsWith(path, home[1]) THEN Ok(canonical.val)
        ELSE IF \E allowed_path \in allowed_system_paths : StartsWith(path, allowed_path)
             THEN Ok(canonical.val)
        ELSE Err(AccessDenied)

\* the validator, were the home directory looked up before the path is
\* resolved
validate_path_home_first(f, home, path) ==
    LET canonical == Canonicalize(f, path)
    IN  IF home = None THEN Err(ConfigurationError)
        ELSE IF ~canonical.ok THEN Err(InvalidPath)
        ELSE IF StartsWith(canonical.val, home[1]) THEN Ok(canonical.val)
        ELSE IF \E allowed_path \in allowed_system_paths :
                    StartsWith(canonical.val, allowed_path)
             THEN Ok(canonical.val)
        ELSE Err(AccessDenied)

validate_path(f, home, path) ==
    LET canonical == Canonicalize(f, path)
    IN  IF ~canonical.ok THEN Err(InvalidPath)
        ELSE IF home = None THEN Err(ConfigurationError)
        ELSE IF StartsWith(canonical.val, home[1]) THEN Ok(canonical.val)
        ELSE IF \E allowed_path \in allowed_system_paths :
                    StartsWith(canonical.val, allowed_path)
             THEN Ok(canonical.val)
        ELSE Err(AccessDenied)

\* a write validator that accepts whatever is readable
validate_write_path_as_readable(f, home, path) == validate_path(f, home, path)

validate_write_path(f, home, path) ==
    LET canonical == validate_path(f, home, path)
    IN  IF ~canonical.ok THEN canonical
        ELSE IF home = None THEN Err(ConfigurationError)
        ELSE IF ~StartsWith(canonical.val, home[1]) THEN Err(WriteDenied)
        ELSE Ok(canonical.val)

-----------------------------------------------------------------------------
(* The mutation commands.  Each yields the filesystem it leaves and its    *)
(* result.                                                                 *)

Failed(f, e) == [fs |-> f, res |-> Err(e)]

\* a name check that lets path separators through
NameRejected_without_separators(name) ==
    \/ name = <<>>
    \/ name = DotName
    \/ name = DotDot

\* the name check of create_folder and rename_item
NameRejected(name) ==
    \/ name = <<>>
    \/ ContainsChar(name, Slash)
    \/ ContainsChar(name, Backslash)
    \/ name = DotName
    \/ name = DotDot

\* a create_folder that returns the new folder's path as the caller spelled
\* the parent
create_folder_path_as_given(f, home, path, name) ==
    LET parent_path == validate_write_path(f, home, path)
    IN  IF ~parent_path.ok THEN Failed(f, parent_path.err)
        ELSE IF NameRejected(name) THEN Failed(f, InvalidFolderName)
        ELSE LET new_folder_path == Join(parent_path.val, name)
             IN  IF Exists(f, new_folder_path) THEN Failed(f, FolderExists)
                 ELSE LET made == create_dir(f, new_folder_path)
                      IN  IF made.res.ok
                          THEN [fs |-> made.fs, res |-> Ok(Join(path, name))]
                          ELSE Failed(f, IoFailure)

\* a create_folder that leaves the existence check to create_dir
create_folder_unchecked(f, home, path, name) ==
    LET parent_path == validate_write_path(f, home, path)
    IN  IF ~parent_path.ok THEN Failed(f, parent_path.err)
        ELSE IF NameRejected(name) THEN Failed(f, InvalidFolderName)
        ELSE LET new_folder_path == Join(parent_path.val, name)
                 made == create_dir(f, new_folder_path)
             IN  IF made.res.ok
                 THEN [fs |-> made.fs, res |-> Ok(new_folder_path)]
                 ELSE Failed(f, IoFailure)

create_folder(f, home, path, name) ==
    LET parent_path == validate_write_path(f, home, path)
    IN  IF ~parent_path.ok THEN Failed(f, parent_path.err)
        ELSE IF NameRejected(name) THEN Failed(f, InvalidFolderName)
        ELSE LET new_folder_path == Join(parent_path.val, name)
             IN  IF Exists(f, new_folder_path) THEN Failed(f, FolderExists)
                 ELSE LET made == create_dir(f, new_folder_path)
                      IN  IF made.res.ok
                          THEN [fs |-> made.fs, res |-> Ok(new_folder_path)]
                          ELSE Failed(f, IoFailure)

\* a delete_item that canonicalizes its path and asks no validator
delete_item_unvalidated(f, home, path) ==
    LET item_path == Canonicalize(f, path)
    IN  IF ~item_path.ok THEN Failed(f, InvalidPath)
        ELSE IF IsDir(f, item_path.val) THEN remove_dir_all(f, item_path.val)
        ELSE remove_file(f, item_path.val)

delete_item(f, home, path) ==
    LET item_path == validate_write_path(f, home, path)
    IN  IF ~item_path.ok THEN Failed(f, item_path.err)
        ELSE IF IsDir(f, item_path.val) THEN remove_dir_all(f, item_path.val)
        ELSE remove_file(f, item_path.val)

rename_item(f, home, old_path, new_name) ==
    LET old_item_path == validate_write_path(f, home, old_path)
    IN  IF ~old_item_path.ok THEN Failed(f, old_item_path.err)
        ELSE IF NameRejected(new_name) THEN Failed(f, InvalidFileName)
        ELSE IF old_item_path.val = <<>> THEN Failed(f, NoParent)
        ELSE LET new_item_path == Join(Parent(old_item_path.val), new_name)
             IN  IF Exists(f, new_item_path) THEN Failed(f, ItemExists)
                 ELSE LET moved == rename(f, old_item_path.val, new_item_path)
                      IN  IF moved.res.ok
                          THEN [fs |-> moved.fs, res |-> Ok(new_item_path)]
                          ELSE Failed(f, IoFailure)

\* the entries of directory src are copied in read_dir order; the first
\* failure ends the copy and leaves what was copied so far
RECURSIVE copy_dir_recursive(_, _, _)
RECURSIVE CopyEntries(_, _, _, _, _)
CopyEntries(f, src, dst, names, i) ==
    IF i > Len(names) THEN [fs |-> f, res |-> Ok(dst)]
    ELSE LET src_path == Append(src, names[i])
             dst_path == Append(dst, names[i])
             one == IF IsDir(f, src_path) THEN copy_dir_recursive(f, src_path, dst_path)
                    ELSE copy(f, src_path, dst_path)
         IN  IF ~one.res.ok THEN one
             ELSE CopyEntries(one.fs, src, dst, names, i + 1)

copy_dir_recursive(f, src, dst) ==
    LET made == create_dir_all(f, dst)
    IN  IF ~made.res.ok THEN [fs |-> made.fs, res |-> Err(IoFailure)]
        ELSE LET dir == Canonicalize(made.fs, src)
             IN  IF ~dir.ok \/ made.fs[dir.val].kind # "dir"
                 THEN [fs |-> made.fs, res |-> Err(IoFailure)]
                 ELSE CopyEntries(made.fs, src, dst, made.fs[dir.val].entries, 1)

copy_item(f, source_path, dest_dir) ==
    IF ~Exists(f, source_path) THEN Failed(f, SourceMissing)
    ELSE IF ~Exists(f, dest_dir) \/ ~IsDir(f, dest_dir) THEN Failed(f, DestMissing)
    ELSE IF file_name(source_path) = None THEN Failed(f, NoFileName)
    ELSE LET dest_path == Append(dest_dir, file_name(source_path)[1])
             done == IF IsDir(f, source_path)
                     THEN copy_dir_recursive(f, source_path, dest_path)
                     ELSE copy(f, source_path, dest_path)
         IN  IF Exists(f, dest_path) THEN Failed(f, DestItemExists)
             ELSE IF done.res.ok THEN [fs |-> done.fs, res |-> Ok(dest_path)]
             ELSE [fs |-> done.fs, res |-> Err(IoFailure)]

move_item(f, source_path, dest_dir) ==
    IF ~Exists(f, source_path) THEN Failed(f, SourceMissing)
    ELSE IF ~Exists(f, dest_dir) \/ ~IsDir(f, dest_dir) THEN Failed(f, DestMissing)
    ELSE IF file_name(source_path) = None THEN Failed(f, NoFileName)
    ELSE LET dest_path == Append(dest_dir, file_name(source_path)[1])
             moved == rename(f, source_path, dest_path)
         IN  IF Exists(f, dest_path) THEN Failed(f, DestItemExists)
             ELSE IF moved.res.ok THEN [fs |-> moved.fs, res |-> Ok(dest_path)]
             ELSE Failed(f, IoFailure)

-----------------------------------------------------------------------------
(* Listings.                                                               *)

\* the order of two strings (str::cmp): byte-wise lexicographic
StrLess(a, b) ==
    \E i \in 1..Len(b) :
        /\ \A j \in 1..(i - 1) : j <= Len(a) /\ a[j] = b[j]
        /\ (i = Len(a) + 1 \/ (i <= Len(a) /\ CodeOf[a[i]] < CodeOf[b[i]]))

\* a comparator that puts files before directories
CmpKeys_files_first(a_is_dir, a_lower, b_is_dir, b_lower) ==
    IF a_is_dir /\ ~b_is_dir THEN "Greater"
    ELSE IF ~a_is_dir /\ b_is_dir THEN "Less"
    ELSE IF StrLess(a_lower, b_lower) THEN "Less"
    ELSE IF a_lower = b_lower THEN "Equal"
    ELSE "Greater"

\* the comparator of the two sort_by calls, given the two items' is_dir and
\* their names in lower case: directories first, then by lower-cased name
CmpKeys(a_is_dir, a_lower, b_is_dir, b_lower) ==
    IF a_is_dir /\ ~b_is_dir THEN "Less"
    ELSE IF ~a_is_dir /\ b_is_dir THEN "Greater"
    ELSE IF StrLess(a_lower, b_lower) THEN "Less"
    ELSE IF a_lower = b_lower THEN "Equal"
    ELSE "Greater"

ItemCmp(a, b) == CmpKeys(a.is_dir, to_lowercase(a.name), b.is_dir, to_lowercase(b.name))

\* slice::sort_by with that comparator, a stable sort: each item goes to the
\* place given by the number of items that have to come before it (the
\* lower-cased names are computed once per item)
SortItems(items) ==
    LET n == Len(items)
        its == SubSeq(items, 1, n)
        low == SubSeq([i \in 1..n |-> to_lowercase(its[i].name)], 1, n)
        Before(j, i) ==
            LET c == CmpKeys(its[j].is_dir, low[j], its[i].is_dir, low[i])
            IN  c = "Less" \/ (c = "Equal" /\ j < i)
        places == {<<1 + Cardinality({j \in 1..n : Before(j, i)}), i>> : i \in 1..n}
    IN  [k \in 1..n |-> its[(CHOOSE pl \in places : pl[1] = k)[2]]]

\* the FileItem of an entry, were the size taken from the metadata whatever
\* the entry is
EntryItem_sized_directories(f, path) ==
    LET is_dir == IsDir(f, path)
        at == LCanon(f, path)
        metadata == IF LExists(f, path) THEN Some(f[at.val]) ELSE None
    IN  [name |-> Last(path),
         path |-> path,
         is_dir |-> is_dir,
         size |-> IF metadata # None THEN Some(metadata[1].size) ELSE None,
         modified |-> IF metadata # None THEN Some("mtime") ELSE None]

\* the FileItem of the directory entry at `path` (DirEntry::metadata does not
\* follow a symbolic link, Path::is_dir does)
EntryItem(f, path) ==
    LET is_dir == IsDir(f, path)
        at == LCanon(f, path)
        metadata == IF LExists(f, path) THEN Some(f[at.val]) ELSE None
    IN  [name |-> Last(path),
         path |-> path,
         is_dir |-> is_dir,
         size |-> IF metadata # None /\ ~is_dir THEN Some(metadata[1].size) ELSE None,
         modified |-> IF metadata # None THEN Some("mtime") ELSE None]

\* fs::read_dir: the entries' names in directory order
read_dir(f, path) ==
    LET dir == Canonicalize(f, path)
    IN  IF dir.ok /\ f[dir.val].kind = "dir" THEN Ok(f[dir.val].entries)
        ELSE Err(IoFailure)

read_directory(f, home, path) ==
    LET dir_path == validate_path(f, home, path)
    IN  IF ~dir_path.ok THEN Err(dir_path.err)
        ELSE IF ~IsDir(f, dir_path.val) THEN Err(NotADirectory)
        ELSE LET entries == read_dir(f, dir_path.val)
             IN  IF ~entries.ok THEN Err(IoFailure)
                 ELSE Ok([current_path |-> dir_path.val,
                          parent_path |-> IF dir_path.val = <<>> THEN None
                                          ELSE Some(Parent(dir_path.val)),
                          items |-> SortItems(
                              [i \in 1..Len(entries.val) |->
                                  EntryItem(f, Append(dir_path.val, entries.val[i]))])])

\* the name `"Unknown"` stands for a path without a last component
Unknown == <<"U", "n", "k", "n", "o", "w", "n">>

get_item_info(f, path) ==
    IF ~Exists(f, path) THEN Err(ItemMissing)
    ELSE LET metadata == f[Canonicalize(f, path).val]
             is_dir == IsDir(f, path)
         IN  Ok([name |-> IF file_name(path) = None THEN Unknown ELSE file_name(path)[1],
                 path |-> path,
                 is_dir |-> is_dir,
                 size |-> IF ~is_dir THEN Some(metadata.size) ELSE None,
                 modified |-> Some("mtime")])

-----------------------------------------------------------------------------
(* The recursive search.                                                   *)

\* the number of results past which no further directory is entered
SearchCap == 1000

\* search_directory_recursive: the loop over `entries` from its i-th turn on.
\* The turns up to the next entry that is a directory only push matches; that
\* directory is entered if fewer than SearchCap results are collected.
RECURSIVE search_directory_recursive(_, _, _, _)
RECURSIVE ScanEntries(_, _, _, _, _, _)
ScanEntries(f, dir, entries, i, query, results) ==
    LET n == Len(entries)
        dirs == {k \in i..n : IsDir(f, Append(dir, entries[k]))}
        j == IF dirs = {} THEN n ELSE CHOOSE k \in dirs : \A m \in dirs : k <= m
        hits == SelectSeq(SubSeq(entries, i, j),
                          LAMBDA name : Contains(to_lowercase(name), query))
        pushed == results \o [k \in 1..Len(hits) |-> EntryItem(f, Append(dir, hits[k]))]
    IN  IF dirs = {} THEN pushed
        ELSE ScanEntries(f, dir, entries, j + 1, query,
                         IF Len(pushed) < SearchCap
                         THEN search_directory_recursive(f, Append(dir, entries[j]), query, pushed)
                         ELSE pushed)

\* the traversal, were a directory that cannot be read to end it empty-handed
search_directory_recursive_all_or_nothing(f, dir, query, results) ==
    LET entries == read_dir(f, dir)
    IN  IF entries.ok THEN ScanEntries(f, dir, entries.val, 1, query, results)
        ELSE <<>>

\* a directory that cannot be read is passed over
search_directory_recursive(f, dir, query, results) ==
    LET entries == read_dir(f, dir)
    IN  IF entries.ok THEN ScanEntries(f, dir, entries.val, 1, query, results)
        ELSE results

\* the entries the traversal meets below `dir` when it enters every directory
\* (line 482) it can open (line 441): the entries of `dir`, and those of each
\* entry that is a directory
RECURSIVE Below(_, _, _)
Below(f, frontier, met) ==
    LET next == UNION {LET entries == read_dir(f, d)
                       IN  IF IsDir(f, d) /\ entries.ok
                           THEN {Append(d, entries.val[i]) : i \in 1..Len(entries.val)}
                           ELSE {} : d \in frontier}
    IN  IF next = {} THEN met ELSE Below(f, next, met \cup next)

DescendantsOf(f, dir) == Below(f, {dir}, {})

\* the command's result, and the directories it handed to
\* search_directory_recursive
search_files(f, home, directory, query) ==
    LET dir_path == validate_path(f, home, directory)
    IN  IF ~dir_path.ok THEN [res |-> Err(dir_path.err), walked |-> <<>>]
        ELSE IF ~IsDir(f, dir_path.val) THEN [res |-> Err(NotADirectory), walked |-> <<>>]
        ELSE IF TrimIsEmpty(query) THEN [res |-> Err(EmptyQuery), walked |-> <<>>]
        ELSE [res |-> Ok(SortItems(search_directory_recursive(
                             f, dir_path.val, to_lowercase(query), <<>>))),
              walked |-> <<dir_path.val>>]

-----------------------------------------------------------------------------
(* The file preview.                                                       *)

\* lib.rs: get_file_type, the extensions of its "text" and "image" arms
TextExtensions ==
    {<<"t", "x", "t">>, <<"m", "d">>, <<"r", "t", "f">>, <<"l", "o", "g">>,
     <<"c", "s", "v">>, <<"x", "m", "l">>, <<"y", "a", "m", "l">>,
     <<"y", "m", "l">>, <<"t", "o", "m", "l">>, <<"i", "n", "i">>,
     <<"c", "o", "n", "f">>,
     <<"h", "t", "m", "l">>, <<"c", "s", "s">>, <<"j", "s">>, <<"t", "s">>,
     <<"j", "s", "o", "n">>, <<"j", "s", "x">>, <<"t", "s", "x">>,
     <<"r", "s">>, <<"p", "y">>, <<"j", "a", "v", "a">>, <<"c", "p", "p">>,
     <<"c">>, <<"h">>, <<"h", "p", "p">>, <<"g", "o">>, <<"p", "h", "p">>,
     <<"r", "b">>, <<"s", "w", "i", "f", "t">>,
     <<"s", "h">>, <<"b", "a", "s", "h">>, <<"z", "s", "h">>,
     <<"f", "i", "s", "h">>, <<"p", "s", "1">>, <<"b", "a", "t">>,
     <<"c", "m", "d">>}

ImageExtensions ==
    {<<"j", "p", "g">>, <<"j", "p", "e", "g">>, <<"p", "n", "g">>,
     <<"g", "i", "f">>, <<"b", "m", "p">>, <<"w", "e", "b", "p">>,
     <<"s", "v", "g">>, <<"i", "c", "o">>,
     <<"t", "i", "f", "f">>, <<"t", "i", "f">>, <<"r", "a", "w">>,
     <<"c", "r", "2">>, <<"n", "e", "f">>, <<"a", "r", "w">>}

\* the category of an extension, were the match to fall through to "text"
get_file_type_text_by_default(extension) ==
    IF extension \in ImageExtensions THEN "image" ELSE "text"

get_file_type(extension) ==
    IF extension \in TextExtensions THEN "text"
    ELSE IF extension \in ImageExtensions THEN "image"
    ELSE "unsupported"

\* the preview size limit, in bytes
PreviewMaxSize == 10 * 1024 * 1024

\* the bytes shown of a file that is not UTF-8
HexPreviewBytes == 1024

\* a size check that refuses a file of exactly the limit
TooLargeForPreview_at_limit(size) == size >= PreviewMaxSize

\* the size check of preview_file
TooLargeForPreview(size) == size > PreviewMaxSize

\* the first n bytes of a file (its bytes `data`, then zero bytes)
TakeBytes(node, n) ==
    LET m == IF n < node.size THEN n ELSE node.size
    IN  [i \in 1..m |-> IF i <= Len(node.data) THEN node.data[i] ELSE 0]

\* whether the bytes from position i on are well-formed UTF-8
\* (std::str::from_utf8)
IsCont(b, i, lo, hi) == i <= Len(b) /\ b[i] >= lo /\ b[i] <= hi

RECURSIVE Utf8From(_, _)
Utf8From(b, i) ==
    IF i > Len(b) THEN TRUE
    ELSE LET c == b[i]
         IN  IF c < 128 THEN Utf8From(b, i + 1)
             ELSE IF c >= 194 /\ c <= 223
                  THEN IsCont(b, i + 1, 128, 191) /\ Utf8From(b, i + 2)
             ELSE IF c >= 224 /\ c <= 239
                  THEN /\ IsCont(b, i + 1, IF c = 224 THEN 160 ELSE 128,
                                           IF c = 237 THEN 159 ELSE 191)
                       /\ IsCont(b, i + 2, 128, 191)
                       /\ Utf8From(b, i + 3)
             ELSE IF c >= 240 /\ c <= 244
                  THEN /\ IsCont(b, i + 1, IF c = 240 THEN 144 ELSE 128,
                                           IF c = 244 THEN 143 ELSE 191)
                       /\ IsCont(b, i + 2, 128, 191)
                       /\ IsCont(b, i + 3, 128, 191)
                       /\ Utf8From(b, i + 4)
             ELSE FALSE

\* the file's bytes are UTF-8: the zero bytes after `data` are, and they
\* complete no sequence `data` leaves open
IsUtf8(node) == Utf8From(node.data, 1)

HexDigits == <<"0", "1", "2", "3", "4", "5", "6", "7", "8", "9", "a", "b", "c", "d", "e", "f">>

\* a byte in two upper-case hex digits
HexByte_upper(b) ==
    <<<<"0", "1", "2", "3", "4", "5", "6", "7", "8", "9", "A", "B", "C", "D", "E", "F">>[(b \div 16) + 1],
      <<"0", "1", "2", "3", "4", "5", "6", "7", "8", "9", "A", "B", "C", "D", "E", "F">>[(b % 16) + 1]>>

\* format!("{:02x}", b)
HexByte(b) == <<HexDigits[(b \div 16) + 1], HexDigits[(b % 16) + 1]>>

\* bytes.iter().map(|b| format!("{:02x}", b)).collect::<Vec<_>>().join(" "):
\* the k-th byte's two digits are characters 3k-2 and 3k-1, a space follows
\* each but the last
HexDump(bytes) ==
    [j \in 1..(3 * Len(bytes) - 1) |->
        IF j % 3 = 0 THEN " " ELSE HexByte(bytes[((j - 1) \div 3) + 1])[j % 3]]

Base64Alphabet ==
    <<"A", "B", "C", "D", "E", "F", "G", "H", "I", "J", "K", "L", "M", "N", "O", "P",
      "Q", "R", "S", "T", "U", "V", "W", "X", "Y", "Z", "a", "b", "c", "d", "e", "f",
      "g", "h", "i", "j", "k", "l", "m", "n", "o", "p", "q", "r", "s", "t", "u", "v",
      "w", "x", "y", "z", "0", "1", "2", "3", "4", "5", "6", "7", "8", "9", "+", "/">>

Sextet(n) == Base64Alphabet[(n % 64) + 1]

\* general_purpose::STANDARD.encode of an explicit byte sequence
RECURSIVE Base64(_)
Base64(b) ==
    IF b = <<>> THEN <<>>
    ELSE IF Len(b) = 1
         THEN <<Sextet(b[1] \div 4), Sextet((b[1] % 4) * 16), "=", "=">>
    ELSE IF Len(b) = 2
         THEN <<Sextet(b[1] \div 4), Sextet((b[1] % 4) * 16 + (b[2] \div 16)),
                Sextet((b[2] % 16) * 4), "=">>
    ELSE <<Sextet(b[1] \div 4), Sextet((b[1] % 4) * 16 + (b[2] \div 16)),
           Sextet((b[2] % 16) * 4 + (b[3] \div 64)), Sextet(b[3])>>
         \o Base64(SubSeq(b, 4, Len(b)))

\* the base64 text of a whole file: the encoding of its leading bytes up to a
\* multiple of three past `data`, then `quads` times "AAAA" for the zero bytes
\* that follow, then the encoding of the last one or two zero bytes
Base64OfFile(node) ==
    LET k == ((Len(node.data) + 2) \div 3) * 3
        lead == IF k < node.size THEN k ELSE node.size
        rest == node.size - lead
    IN  [lead |-> Base64(TakeBytes(node, lead)),
         quads |-> rest \div 3,
         tail |-> Base64([i \in 1..(rest % 3) |-> 0])]

\* the command's result, and the reads of the file's content it made, in order
preview_file(f, home, path) ==
    LET file_path == validate_path(f, home, path)
    IN  IF ~file_path.ok THEN [res |-> Err(file_path.err), reads |-> <<>>]
        ELSE IF ~IsFile(f, file_path.val) THEN [res |-> Err(NotAFile), reads |-> <<>>]
        ELSE LET metadata == f[file_path.val]
                 size == metadata.size
                 filename == Last(file_path.val)
                 pieces == Split(filename, ".")
                 extension == to_lowercase(pieces[Len(pieces)])
                 file_type == get_file_type(extension)
             IN  IF TooLargeForPreview(size) THEN [res |-> Err(TooLarge), reads |-> <<>>]
                 ELSE IF file_type = "text"
                 THEN IF IsUtf8(metadata)
                      THEN [res |-> Ok([file_type |-> file_type,
                                        content |-> [utf8 |-> metadata.data,
                                                     zeros |-> size - Len(metadata.data)],
                                        size |-> size,
                                        encoding |-> "text"]),
                            reads |-> <<"read_to_string">>]
                      ELSE [res |-> Ok([file_type |-> "binary",
                                        content |-> HexDump(TakeBytes(metadata, HexPreviewBytes)),
                                        size |-> size,
                                        encoding |-> "hex"]),
                            reads |-> <<"read_to_string", "read">>]
                 ELSE IF file_type = "image"
                 THEN [res |-> Ok([file_type |-> file_type,
                                   content |-> Base64OfFile(metadata),
                                   size |-> size,
                                   encoding |-> "base64"]),
                       reads |-> <<"read">>]
                 ELSE [res |-> Err(UnsupportedType), reads |-> <<>>]

-----------------------------------------------------------------------------
(* The initial filesystem.                                                 *)
(*   /home/u          the user's home directory                            *)
(*   /home/u/a        a directory, /home/u/f.txt a file                    *)
(*   /home/u/lnk      a symbolic link to /etc                              *)
(*   /home/u/dl       a symbolic link to /gone, which does not exist       *)
(*   /h               a symbolic link to /home/u                           *)
(*   /etc/pw          a file outside home and outside the allow-list       *)
(*   /opt/t           a file under an allow-listed root (its own volume)   *)

pHome == <<nHome, nU>>

InitFS ==
    (<<>> :> DirNode(<<nEtc, nHome, nOpt, nH>>))
    @@ (<<nHome>> :> DirNode(<<nU>>))
    @@ (pHome :> DirNode(<<nFtxt, nLnk, nA, nDl>>))
    @@ (<<nHome, nU, nDl>> :> LinkNode(<<nGone>>))
    @@ (<<nHome, nU, nA>> :> DirNode(<<>>))
    @@ (<<nHome, nU, nFtxt>> :> FileNode(2, <<104, 105>>))
    @@ (<<nHome, nU, nLnk>> :> LinkNode(<<nEtc>>))
    @@ (<<nH>> :> LinkNode(pHome))
    @@ (<<nEtc>> :> DirNode(<<nPw>>))
    @@ (<<nEtc, nPw>> :> FileNode(1, <<120>>))
    @@ (<<nOpt>> :> DirNode(<<nTool>>))
    @@ (<<nOpt, nTool>> :> FileNode(0, <<>>))

\* what dirs::home_dir() may return: the home directory's canonical path, a
\* path that reaches it through a symbolic link ($HOME=/h), or nothing
HomeValues == {Some(pHome), Some(<<nH>>), None}

\* the path strings a caller passes: the home directory, a directory, a file
\* and a link in it, spellings that leave it through ".." and enter it
\* through /h, places outside it, and a path that does not exist
pA == <<nHome, nU, nA>>
pF == <<nHome, nU, nFtxt>>
pLnk == <<nHome, nU, nLnk>>
pUp == <<nHome, nU, DotDot, DotDot, nEtc>>
pViaH == <<nH, nA>>
pEtc == <<nEtc>>
pOpt == <<nOpt>>
pNope == <<nHome, nU, nNope>>
pDl == <<nHome, nU, nDl>>

InPaths == {pHome, pA, pF, pLnk, pUp, pViaH, pEtc, pOpt, pNope, pDl}

\* the directories a caller asks to create a folder in
InParents == {pHome, pA, pLnk, pViaH, pOpt, pNope, pDl}

\* the items a caller asks to rename, copy or move
InItems == {pA, pF, pLnk, pEtc, pNope, pDl}

\* the directories a caller asks to copy or move into
InDests == {pHome, pA, pEtc, pOpt}

\* the search queries a caller passes
InQueries == {<<"A">>, <<" ">>}

\* the folder and file names a caller passes
InNames == {nX, nA, nDl, EmptyName, DotName, DotDot, nEvil, nBack}

Init ==
    /\ fs = InitFS
    /\ homeDir \in HomeValues
    /\ last = [op |-> "none"]
    /\ steps = 0
    /\ calls = NoCalls
    /\ ui = NoUi

Invoke(op, args, out) ==
    /\ steps < MaxOps
    /\ steps' = steps + 1
    /\ fs' = out.fs
    /\ last' = [op |-> op, args |-> args, res |-> out.res]
    /\ UNCHANGED <<homeDir, calls, ui>>

ValidateReadable ==
    \E path \in InPaths :
        Invoke("validate_readable", <<path>>, [fs |-> fs, res |-> validate_path(fs, homeDir, path)])

ValidateWritable ==
    \E path \in InPaths :
        Invoke("validate_writable", <<path>>,
               [fs |-> fs, res |-> validate_write_path(fs, homeDir, path)])

CreateFolder ==
    \E path \in InParents, name \in InNames :
        Invoke("create_folder", <<path, name>>, create_folder(fs, homeDir, path, name))

DeleteItem ==
    \E path \in InPaths :
        Invoke("delete_item", <<path>>, delete_item(fs, homeDir, path))

RenameItem ==
    \E old_path \in InItems, new_name \in InNames :
        Invoke("rename_item", <<old_path, new_name>>,
               rename_item(fs, homeDir, old_path, new_name))

CopyItem ==
    \E source_path \in InItems, dest_dir \in InDests :
        Invoke("copy_item", <<source_path, dest_dir>>, copy_item(fs, source_path, dest_dir))

MoveItem ==
    \E source_path \in InItems, dest_dir \in InDests :
        Invoke("move_item", <<source_path, dest_dir>>, move_item(fs, source_path, dest_dir))

ReadDirectory ==
    \E path \in InPaths :
        Invoke("read_directory", <<path>>, [fs |-> fs, res |-> read_directory(fs, homeDir, path)])

GetItemInfo ==
    \E path \in InPaths :
        Invoke("get_item_info", <<path>>, [fs |-> fs, res |-> get_item_info(fs, path)])

SearchFiles(dirs, queries) ==
    \E directory \in dirs, query \in queries :
        LET out == search_files(fs, homeDir, directory, query)
        IN  /\ steps < MaxOps
            /\ steps' = steps + 1
            /\ last' = [op |-> "search_files", args |-> <<directory, query>>,
                        res |-> out.res, walked |-> out.walked]
            /\ UNCHANGED <<fs, homeDir, calls, ui>>

PreviewFile(paths) ==
    \E path \in paths :
        LET out == preview_file(fs, homeDir, path)
        IN  /\ steps < MaxOps
            /\ steps' = steps + 1
            /\ last' = [op |-> "preview_file", args |-> <<path>>, res |-> out.res,
                        reads |-> out.reads]
            /\ UNCHANGED <<fs, homeDir, calls, ui>>

Next ==
    \/ ValidateReadable
    \/ ValidateWritable
    \/ CreateFolder
    \/ DeleteItem
    \/ RenameItem
    \/ CopyItem
    \/ MoveItem
    \/ ReadDirectory
    \/ GetItemInfo
    \/ SearchFiles(InDests, InQueries)
    \/ PreviewFile(InPaths)

Spec == Init /\ [][Next]_vars

-----------------------------------------------------------------------------
(* Searches of a home directory that holds a directory `big` of many files *)
(* m1, m2, ... and, after them, a directory `sub` with one more file.      *)

\* files in `big` beyond SearchCap - 1
BigExtra == 2

nBig == <<"b", "i", "g">>
nSub == <<"s", "u", "b">>
nMz == <<"m", "z">>
pBig == <<nHome, nU, nBig>>

RECURSIVE Digits(_)
Digits(n) == IF n < 10 THEN <<Ascii[17 + n]>> ELSE Append(Digits(n \div 10), Ascii[17 + (n % 10)])

\* the name of the i-th file of `big`
NumName(i) == <<"m">> \o Digits(i)

BigFS(n) ==
    LET files == {Append(pBig, NumName(i)) : i \in 1..n}
        base == [InitFS EXCEPT ![pHome].entries = Append(@, nBig)]
    IN  [p \in files |-> FileNode(0, <<>>)]
        @@ (pBig :> DirNode([i \in 1..(n + 1) |-> IF i <= n THEN NumName(i) ELSE nSub]))
        @@ (Append(pBig, nSub) :> DirNode(<<nMz>>))
        @@ (<<nHome, nU, nBig, nSub, nMz>> :> FileNode(0, <<>>))
        @@ base

SearchDirs == {pBig, Append(pBig, nSub), pA, pF, pLnk, pEtc, pOpt, pNope}

SearchQueries == {<<"m">>, <<"Z">>, <<"9", "9">>, <<"B", "i">>, <<" ">>, <<>>}

InitSearchBig ==
    /\ fs \in {BigFS(SearchCap - 1 + k) : k \in 0..BigExtra}
    /\ homeDir = Some(pHome)
    /\ last = [op |-> "none"]
    /\ steps = 0
    /\ calls = NoCalls
    /\ ui = NoUi

\* one search of each tree: a search leaves the filesystem as it is
NextSearchBig == last.op = "none" /\ SearchFiles(SearchDirs, SearchQueries)

SpecSearchBig == InitSearchBig /\ [][NextSearchBig]_vars

-----------------------------------------------------------------------------
(* Previews of one file in the home directory, of every kind of name, of   *)
(* sizes around the limit and of well- and ill-formed content.             *)

nPtxt == <<"p", ".", "t", "x", "t">>
nPpng == <<"p", ".", "P", "N", "G">>
nPmp3 == <<"p", ".", "m", "p", "3">>
nMd == <<"m", "d">>

PreviewNames == {nPtxt, nPpng, nPmp3, nMd}

PreviewSizes == {0, 2, PreviewMaxSize - 1, PreviewMaxSize, PreviewMaxSize + 1, 2 * PreviewMaxSize}

\* "hi", "e" with an acute accent, two bytes that occur in no UTF-8 text, and a
\* lead byte without its continuation
PreviewData == {<<>>, <<104, 105>>, <<195, 169>>, <<255, 254>>, <<104, 195>>}

InitPreview ==
    /\ \E name \in PreviewNames, size \in PreviewSizes, data \in PreviewData :
           /\ Len(data) <= size
           /\ fs = Link(InitFS, Append(pHome, name), FileNode(size, data))
    /\ homeDir = Some(pHome)
    /\ last = [op |-> "none"]
    /\ steps = 0
    /\ calls = NoCalls
    /\ ui = NoUi

NextPreview == PreviewFile(DOMAIN fs \cup InPaths)

SpecPreview == InitPreview /\ [][NextPreview]_vars

-----------------------------------------------------------------------------
(* Listings and searches of a directory /home/u/d whose entries, in every  *)
(* enumeration order, are files and directories with names that differ in  *)
(* case only; the directory A holds one more file a.txt.                   *)

nD == <<"d">>
nBtxt == <<"b", ".", "t", "x", "t">>
nUpA == <<"A">>
nAtxt == <<"a", ".", "t", "x", "t">>
nUpAtxt == <<"A", ".", "T", "X", "T">>
nC == <<"c">>
pD == <<nHome, nU, nD>>

ListFiles == {nBtxt, nAtxt, nUpAtxt}
ListFolders == {nUpA, nC}

\* the orders read_dir may yield three or more of these entries in
ListOrders ==
    {order \in UNION {[1..k -> ListFiles \cup ListFolders] : k \in 3..5} :
        \A i, j \in DOMAIN order : order[i] = order[j] => i = j}

\* the entries of d whose metadata cannot be read: none, a file's, a folder's
ListStale == {{}, {nAtxt}, {nC}}

ListFS(order, stale) ==
    LET names == {order[i] : i \in DOMAIN order}
        base == [InitFS EXCEPT ![pHome].entries = Append(@, nD)]
        inner == IF nUpA \in names
                 THEN (<<nHome, nU, nD, nUpA, nAtxt>> :> FileNode(1, <<97>>))
                 ELSE <<>>
    IN  [p \in {Append(pD, n) : n \in names} |->
            IF Last(p) \in stale THEN StaleNode
            ELSE IF Last(p) \in ListFolders
            THEN DirNode(IF Last(p) = nUpA THEN <<nAtxt>> ELSE <<>>)
            ELSE FileNode(0, <<>>)]
        @@ (pD :> DirNode(order))
        @@ inner
        @@ base

ListPaths == {pD, Append(pD, nUpA), pHome, <<nH, nD>>, pOpt, pEtc}

ListQueries == {<<"a">>, <<"T", "x">>, <<".">>, <<" ">>, <<>>, <<" ", "\t", "\n">>}

InitListing ==
    /\ fs \in {ListFS(order, stale) : order \in ListOrders, stale \in ListStale}
    /\ homeDir = Some(pHome)
    /\ last = [op |-> "none"]
    /\ steps = 0
    /\ calls = NoCalls
    /\ ui = NoUi

\* the entries get_item_info is asked about
ListItems == {Append(pD, n) : n \in ListFiles \cup ListFolders} \cup {pD, pLnk, pNope}

\* one listing, search or inquiry of each tree: all leave the filesystem as
\* it is
NextListing ==
    /\ last.op = "none"
    /\ \/ \E path \in ListPaths :
              Invoke("read_directory", <<path>>,
                     [fs |-> fs, res |-> read_directory(fs, homeDir, path)])
       \/ SearchFiles(ListPaths, ListQueries)
       \/ \E path \in ListItems :
              Invoke("get_item_info", <<path>>,
                     [fs |-> fs, res |-> get_item_info(fs, path)])

SpecListing == InitListing /\ [][NextListing]_vars

-----------------------------------------------------------------------------
(* Searches of a tree /home/u/s that holds a directory PW whose name       *)
(* matches what its own file pw matches, a directory k that may be one the *)
(* process cannot open, and may hold a link `out` to /etc (outside the     *)
(* home directory) and a link `up` back to /home/u/s itself.               *)

nS == <<"s">>
nPW == <<"P", "W">>
nQ == <<"q">>
nK == <<"k">>
nW2 == <<"w", "2">>
nOut == <<"o", "u", "t">>
nUp == <<"u", "p">>
pS == <<nHome, nU, nS>>

TreeFS(locked, out, up) ==
    LET base == [InitFS EXCEPT ![pHome].entries = Append(@, nS)]
        links == (IF out THEN <<nOut>> ELSE <<>>) \o (IF up THEN <<nUp>> ELSE <<>>)
    IN  (pS :> DirNode(<<nPW, nK>> \o links))
        @@ (Append(pS, nPW) :> DirNode(<<nPw, nQ>>))
        @@ (<<nHome, nU, nS, nPW, nPw>> :> FileNode(0, <<>>))
        @@ (<<nHome, nU, nS, nPW, nQ>> :> FileNode(0, <<>>))
        @@ (Append(pS, nK) :> IF locked THEN LockedNode(<<nW2>>) ELSE DirNode(<<nW2>>))
        @@ (<<nHome, nU, nS, nK, nW2>> :> FileNode(0, <<>>))
        @@ (IF out THEN Append(pS, nOut) :> LinkNode(<<nEtc>>) ELSE <<>>)
        @@ (IF up THEN Append(pS, nUp) :> LinkNode(pS) ELSE <<>>)
        @@ base

TreeDirs == {pS, Append(pS, nPW), Append(pS, nK), Append(pS, nUp), pHome, pEtc}

TreeQueries == {<<"w">>, <<"P", "W">>, <<"q">>, <<"z", "z">>, <<"K">>, <<"u">>}

InitSearchTree ==
    /\ fs \in {TreeFS(locked, out, up) : locked \in BOOLEAN, out \in BOOLEAN, up \in BOOLEAN}
    /\ homeDir = Some(pHome)
    /\ last = [op |-> "none"]
    /\ steps = 0
    /\ calls = NoCalls
    /\ ui = NoUi

\* one search of each tree
NextSearchTree == last.op = "none" /\ SearchFiles(TreeDirs, TreeQueries)

SpecSearchTree == InitSearchTree /\ [][NextSearchTree]_vars

-----------------------------------------------------------------------------
(* Commands running concurrently.  Every command is an async fn run on the *)
(* runtime's threads, so a second one may run between the checks of a      *)
(* first and the system call that follows them.  A call takes two steps:   *)
(* its checks, which end it with an error or fix the system call to make,  *)
(* and that system call, made on the filesystem as it is by then.          *)

CallIds == 1..MaxCalls

Request(op, args) == [op |-> op, args |-> args]

\* the requests the calls are made with: folders and items that end up at
\* /home/u/x, and a file that ends up at /home/u/a/f.txt
ConcurrentRequests ==
    {Request("create_folder", <<pHome, nX>>),
     Request("rename_item", <<pA, nX>>),
     Request("rename_item", <<pF, nX>>),
     Request("copy_item", <<pF, pA>>),
     Request("move_item", <<pF, pA>>),
     Request("copy_item", <<pNope, pA>>)}

\* the system call a command has fixed once its checks are through: which,
\* from where, to where
Plan(call, src, dst) == [call |-> call, src |-> src, dst |-> dst]

\* create_folder up to fs::create_dir (lines 173-184)
create_folder_checks(f, home, path, name) ==
    LET parent_path == validate_write_path(f, home, path)
    IN  IF ~parent_path.ok THEN Err(parent_path.err)
        ELSE IF NameRejected(name) THEN Err(InvalidFolderName)
        ELSE IF Exists(f, Join(parent_path.val, name)) THEN Err(FolderExists)
        ELSE Ok(Plan("create_dir", <<>>, Join(parent_path.val, name)))

\* rename_item up to fs::rename (lines 213-226)
rename_item_checks(f, home, old_path, new_name) ==
    LET old_item_path == validate_write_path(f, home, old_path)
    IN  IF ~old_item_path.ok THEN Err(old_item_path.err)
        ELSE IF NameRejected(new_name) THEN Err(InvalidFileName)
        ELSE IF old_item_path.val = <<>> THEN Err(NoParent)
        ELSE IF Exists(f, Join(Parent(old_item_path.val), new_name)) THEN Err(ItemExists)
        ELSE Ok(Plan("rename", old_item_path.val, Join(Parent(old_item_path.val), new_name)))

\* copy_item and move_item up to the copy or fs::rename (lines 239-253 and
\* 270-284)
transfer_checks(f, call, source_path, dest_dir) ==
    IF ~Exists(f, source_path) THEN Err(SourceMissing)
    ELSE IF ~Exists(f, dest_dir) \/ ~IsDir(f, dest_dir) THEN Err(DestMissing)
    ELSE IF file_name(source_path) = None THEN Err(NoFileName)
    ELSE IF Exists(f, Append(dest_dir, file_name(source_path)[1])) THEN Err(DestItemExists)
    ELSE Ok(Plan(call, source_path, Append(dest_dir, file_name(source_path)[1])))

Checks(f, home, req) ==
    IF req.op = "create_folder"
    THEN create_folder_checks(f, home, req.args[1], req.args[2])
    ELSE IF req.op = "rename_item"
    THEN rename_item_checks(f, home, req.args[1], req.args[2])
    ELSE transfer_checks(f, IF req.op = "copy_item" THEN "copy" ELSE "rename",
                         req.args[1], req.args[2])

\* the system call made on the filesystem f
Perform(f, plan) ==
    IF plan.call = "create_dir" THEN create_dir(f, plan.dst)
    ELSE IF plan.call = "rename" THEN rename(f, plan.src, plan.dst)
    ELSE IF IsDir(f, plan.src) THEN copy_dir_recursive(f, plan.src, plan.dst)
    ELSE copy(f, plan.src, plan.dst)

NoPlan == Plan("none", <<>>, <<>>)

IdleCall == [pc |-> "idle", req |-> Request("none", <<>>), plan |-> NoPlan,
             res |-> Err(""), replaced |-> FALSE]

InitConcurrent ==
    /\ fs = InitFS
    /\ homeDir = Some(pHome)
    /\ last = [op |-> "none"]
    /\ steps = 0
    /\ calls = [c \in CallIds |-> IdleCall]
    /\ ui = NoUi

\* where a call stands after its checks on f: at its system call, or
\* returned with the error of the check that failed
AfterChecks(f, home, req) ==
    LET checked == Checks(f, home, req)
    IN  IF checked.ok
        THEN [pc |-> "checked", req |-> req, plan |-> checked.val,
              res |-> Err(""), replaced |-> FALSE]
        ELSE [pc |-> "done", req |-> req, plan |-> NoPlan,
              res |-> checked, replaced |-> FALSE]

\* a call begins and runs up to its system call, or fails a check and returns
CallChecks(c) ==
    /\ calls[c].pc = "idle"
    /\ \E req \in ConcurrentRequests :
           calls' = [calls EXCEPT ![c] = AfterChecks(fs, homeDir, req)]
    /\ UNCHANGED <<fs, homeDir, last, steps, ui>>

\* the call makes its system call and returns; `replaced` records that the
\* call succeeded where an entry was already at the destination
CallMutates(c) ==
    /\ calls[c].pc = "checked"
    /\ LET made == Perform(fs, calls[c].plan)
       IN  /\ fs' = made.fs
           /\ calls' = [calls EXCEPT ![c].pc = "done",
                                     ![c].res = IF made.res.ok THEN Ok(calls[c].plan.dst)
                                                ELSE Err(IoFailure),
                                     ![c].replaced = made.res.ok
                                                     /\ LExists(fs, calls[c].plan.dst)]
    /\ UNCHANGED <<homeDir, last, steps, ui>>

NextConcurrent == \E c \in CallIds : CallChecks(c) \/ CallMutates(c)

SpecConcurrent == InitConcurrent /\ [][NextConcurrent]_vars

-----------------------------------------------------------------------------
(* The browser window (src/app.rs).  Its signals that hold a column or a   *)
(* column index are modelled; the display-only ones (current_path,         *)
(* error_msg, loading, selection, preview, search, zoom, theme) are not.   *)
(* Column indices count from 0 as in the source.                           *)

\* loads of read_directory that may be in flight at once
MaxLoads == 2

\* the highest column index the focus is followed to
MaxColumn == 3

nUsers == <<"U", "s", "e", "r", "s">>

\* the sidebar's places: Home, Applications, Users
SidebarPlaces == {pHome, <<nApplications>>, <<nUsers>>}

ColumnData(path, contents) == [path |-> path, contents |-> contents]

\* cols.get(i)
ColumnAt(cols, i) == IF i < Len(cols) THEN Some(cols[i + 1]) ELSE None

\* cols.truncate(n)
Truncate(cols, n) == IF n < Len(cols) THEN SubSeq(cols, 1, n) ELSE cols

\* items.iter().position(|item| item.path == path), from 0; None if absent
PositionOf(items, path) ==
    LET at == {i \in 1..Len(items) : items[i].path = path}
    IN  IF at = {} THEN None
        ELSE Some((CHOOSE i \in at : \A j \in at : i <= j) - 1)

\* items.iter().find(|item| file_name(item.path) == file_name(path))
FindByFileName(items, path) ==
    LET at == {i \in 1..Len(items) : file_name(items[i].path) = file_name(path)}
    IN  IF at = {} THEN None
        ELSE Some(items[CHOOSE i \in at : \A j \in at : i <= j])

\* the window as App() builds it, with the first load of the home directory
\* (the Effect at lines 200-219) in flight
NewWindow ==
    [columns |-> <<>>,
     focused_item |-> None,
     focused_column_index |-> None,
     loads |-> <<[path |-> pHome, column_index |-> None]>>,
     timers |-> {},
     underflow |-> FALSE,
     panicked |-> FALSE]

\* load_directory_column up to its spawn_local: the request is in flight
load_directory_column(u, path, column_index) ==
    [u EXCEPT !.loads = Append(@, [path |-> path, column_index |-> column_index])]

\* load_directory_column's task when invoke("read_directory") has answered
load_directory_column_done(u, load, result) ==
    IF ~result.ok THEN u
    ELSE LET column == ColumnData(load.path, result.val)
         IN  [u EXCEPT !.columns =
                 IF load.column_index # None
                 THEN Append(Truncate(u.columns, load.column_index[1]), column)
                 ELSE Append(u.columns, column)]

navigate_to(u, path) ==
    load_directory_column([u EXCEPT !.columns = <<>>], path, None)

go_up(u) ==
    IF Len(u.columns) > 1 THEN [u EXCEPT !.columns = SubSeq(@, 1, Len(@) - 1)]
    ELSE IF u.columns # <<>> /\ u.columns[1].contents.parent_path # None
    THEN navigate_to(u, u.columns[1].contents.parent_path[1])
    ELSE u

navigate_up(u) ==
    IF u.focused_column_index # None
    THEN LET column == ColumnAt(u.columns, u.focused_column_index[1])
         IN  IF column = None THEN u
             ELSE LET items == column[1].contents.items
                  IN  IF u.focused_item # None
                      THEN LET current_index == PositionOf(items, u.focused_item[1])
                           IN  IF current_index # None /\ current_index[1] > 0
                               THEN [u EXCEPT !.focused_item = Some(items[current_index[1]].path)]
                               ELSE u
                      ELSE IF items # <<>>
                      THEN [u EXCEPT !.focused_item = Some(items[Len(items)].path)]
                      ELSE u
    ELSE IF u.columns # <<>>
    THEN LET last_col_index == Len(u.columns) - 1
             items == u.columns[last_col_index + 1].contents.items
         IN  [u EXCEPT !.focused_column_index = Some(last_col_index),
                       !.focused_item = IF items # <<>> THEN Some(items[Len(items)].path) ELSE @]
    ELSE u

navigate_down(u) ==
    IF u.focused_column_index # None
    THEN LET column == ColumnAt(u.columns, u.focused_column_index[1])
         IN  IF column = None THEN u
             ELSE LET items == column[1].contents.items
                  IN  IF u.focused_item # None
                      THEN LET current_index == PositionOf(items, u.focused_item[1])
                           IN  IF current_index # None /\ current_index[1] < Len(items) - 1
                               THEN [u EXCEPT !.focused_item = Some(items[current_index[1] + 2].path)]
                               ELSE u
                      ELSE IF items # <<>>
                      THEN [u EXCEPT !.focused_item = Some(items[1].path)]
                      ELSE u
    ELSE IF u.columns # <<>>
    THEN LET items == u.columns[1].contents.items
         IN  [u EXCEPT !.focused_column_index = Some(0),
                       !.focused_item = IF items # <<>> THEN Some(items[1].path) ELSE @]
    ELSE u

\* the tail navigate_left and navigate_right share: the focus is on column
\* new_col_index; keep the item of the same name if there is one, else take
\* the column's first item
FocusColumn(u, new_col_index) ==
    LET column == ColumnAt(u.columns, new_col_index)
        moved == [u EXCEPT !.focused_column_index = Some(new_col_index)]
        matching_item == IF u.focused_item # None /\ file_name(u.focused_item[1]) # None
                            /\ column # None
                         THEN FindByFileName(column[1].contents.items, u.focused_item[1])
                         ELSE None
    IN  IF matching_item # None
        THEN [moved EXCEPT !.focused_item = Some(matching_item[1].path)]
        ELSE IF column # None /\ column[1].contents.items # <<>>
        THEN [moved EXCEPT !.focused_item = Some(column[1].contents.items[1].path)]
        ELSE moved

navigate_left(u) ==
    IF u.focused_column_index # None /\ u.focused_column_index[1] > 0
    THEN FocusColumn(u, u.focused_column_index[1] - 1)
    ELSE u

\* navigate_right: the windows it can leave.  `columns.get().len() - 1` on
\* an empty column list underflows a usize: a build with overflow checks
\* panics there, a build without them wraps to usize::MAX and goes on
navigate_right(u) ==
    IF u.focused_column_index = None THEN {u}
    ELSE IF u.columns = <<>>
    THEN {[u EXCEPT !.underflow = TRUE, !.panicked = TRUE],
          [FocusColumn(u, u.focused_column_index[1] + 1) EXCEPT !.underflow = TRUE]}
    ELSE IF u.focused_column_index[1] < Len(u.columns) - 1
    THEN {FocusColumn(u, u.focused_column_index[1] + 1)}
    ELSE {u}

\* what activate_focused_item and the double click share when the item is a
\* directory: load it into the next column, focus that column at once, and
\* leave a timer to focus its first item
OpenInNextColumn(u, path, new_col_index) ==
    [load_directory_column(u, path, Some(new_col_index))
        EXCEPT !.focused_column_index = Some(new_col_index),
               !.timers = @ \cup {new_col_index}]

activate_focused_item(u, path) ==
    IF u.focused_column_index = None THEN u
    ELSE LET col_index == u.focused_column_index[1]
             column == ColumnAt(u.columns, col_index)
             at == IF column = None THEN None
                   ELSE PositionOf(column[1].contents.items, path)
         IN  IF at = None THEN u
             ELSE IF column[1].contents.items[at[1] + 1].is_dir
             THEN OpenInNextColumn(u, path, col_index + 1)
             ELSE u

\* the spawned task of lines 531-552 and 1004-1022, after its 100 ms
focus_first_item(u, new_col_index) ==
    LET new_column == ColumnAt(u.columns, new_col_index)
        rest == [u EXCEPT !.timers = @ \ {new_col_index}]
    IN  IF new_column # None /\ new_column[1].contents.items # <<>>
        THEN [rest EXCEPT !.focused_item = Some(new_column[1].contents.items[1].path)]
        ELSE rest

\* on:click of an item of column current_col_index
item_click(u, current_col_index, item) ==
    IF ~item.is_dir THEN [u EXCEPT !.columns = Truncate(@, current_col_index + 1)]
    ELSE u

\* on:dblclick of an item of column current_col_index
item_dblclick(u, current_col_index, item) ==
    IF item.is_dir THEN OpenInNextColumn(u, item.path, current_col_index + 1)
    ELSE u

InitUi ==
    /\ fs = InitFS
    /\ homeDir = Some(pHome)
    /\ last = [op |-> "none"]
    /\ steps = 0
    /\ calls = NoCalls
    /\ ui = NewWindow

\* the window can take an event that leaves it as `next`
Takes(next) ==
    /\ ~ui.panicked
    /\ next # ui
    /\ Len(next.loads) <= MaxLoads
    /\ next.focused_column_index # None => next.focused_column_index[1] <= MaxColumn

LoadCompletes ==
    /\ \E k \in 1..Len(ui.loads) :
           LET load == ui.loads[k]
               rest == [ui EXCEPT !.loads = SubSeq(@, 1, k - 1) \o SubSeq(@, k + 1, Len(@))]
               next == load_directory_column_done(rest, load,
                                                  read_directory(fs, homeDir, load.path))
           IN  Takes(next) /\ ui' = next
    /\ UNCHANGED <<fs, homeDir, last, steps, calls>>

TimerFires ==
    /\ \E n \in ui.timers : Takes(focus_first_item(ui, n)) /\ ui' = focus_first_item(ui, n)
    /\ UNCHANGED <<fs, homeDir, last, steps, calls>>

KeyArrowUp ==
    /\ Takes(navigate_up(ui))
    /\ ui' = navigate_up(ui)
    /\ UNCHANGED <<fs, homeDir, last, steps, calls>>

KeyArrowDown ==
    /\ Takes(navigate_down(ui))
    /\ ui' = navigate_down(ui)
    /\ UNCHANGED <<fs, homeDir, last, steps, calls>>

KeyArrowLeft ==
    /\ Takes(navigate_left(ui))
    /\ ui' = navigate_left(ui)
    /\ UNCHANGED <<fs, homeDir, last, steps, calls>>

KeyArrowRight ==
    /\ \E next \in navigate_right(ui) : Takes(next) /\ ui' = next
    /\ UNCHANGED <<fs, homeDir, last, steps, calls>>

KeyEnter ==
    /\ ui.focused_item # None
    /\ Takes(activate_focused_item(ui, ui.focused_item[1]))
    /\ ui' = activate_focused_item(ui, ui.focused_item[1])
    /\ UNCHANGED <<fs, homeDir, last, steps, calls>>

KeyEscape ==
    /\ Takes([ui EXCEPT !.focused_item = None, !.focused_column_index = None])
    /\ ui' = [ui EXCEPT !.focused_item = None, !.focused_column_index = None]
    /\ UNCHANGED <<fs, homeDir, last, steps, calls>>

SidebarClick ==
    /\ \E path \in SidebarPlaces : Takes(navigate_to(ui, path)) /\ ui' = navigate_to(ui, path)
    /\ UNCHANGED <<fs, homeDir, last, steps, calls>>

GoUpClick ==
    /\ Takes(go_up(ui))
    /\ ui' = go_up(ui)
    /\ UNCHANGED <<fs, homeDir, last, steps, calls>>

ItemClick ==
    /\ \E c \in 0..(Len(ui.columns) - 1) :
           \E i \in 1..Len(ui.columns[c + 1].contents.items) :
               LET next == item_click(ui, c, ui.columns[c + 1].contents.items[i])
               IN  Takes(next) /\ ui' = next
    /\ UNCHANGED <<fs, homeDir, last, steps, calls>>

ItemDblClick ==
    /\ \E c \in 0..(Len(ui.columns) - 1) :
           \E i \in 1..Len(ui.columns[c + 1].contents.items) :
               LET next == item_dblclick(ui, c, ui.columns[c + 1].contents.items[i])
               IN  Takes(next) /\ ui' = next
    /\ UNCHANGED <<fs, homeDir, last, steps, calls>>

NextUi ==
    \/ LoadCompletes
    \/ TimerFires
    \/ KeyArrowUp
    \/ KeyArrowDown
    \/ KeyArrowLeft
    \/ KeyArrowRight
    \/ KeyEnter
    \/ KeyEscape
    \/ SidebarClick
    \/ GoUpClick
    \/ ItemClick
    \/ ItemDblClick

SpecUi == InitUi /\ [][NextUi]_vars

-----------------------------------------------------------------------------
(* The requests of the window's service layer (src/services/file_service.rs, *)
(* src/types.rs) and their dispatch to the commands of lib.rs.               *)

\* the names of struct fields and of command parameters
kPath == <<"p", "a", "t", "h">>
kName == <<"n", "a", "m", "e">>
kOldPath == <<"o", "l", "d", "_", "p", "a", "t", "h">>
kNewName == <<"n", "e", "w", "_", "n", "a", "m", "e">>
kSourcePath == <<"s", "o", "u", "r", "c", "e", "_", "p", "a", "t", "h">>
kDestDir == <<"d", "e", "s", "t", "_", "d", "i", "r">>
kSource == <<"s", "o", "u", "r", "c", "e">>
kDestination == <<"d", "e", "s", "t", "i", "n", "a", "t", "i", "o", "n">>
kDirectory == <<"d", "i", "r", "e", "c", "t", "o", "r", "y">>
kQuery == <<"q", "u", "e", "r", "y">>

\* char::to_ascii_uppercase: the letters a to z move down by 32
UpperChar(c) ==
    IF c \in DOMAIN CodeOf /\ CodeOf[c] >= CodeOf["a"] /\ CodeOf[c] <= CodeOf["z"]
    THEN Ascii[CodeOf[c] - 31 - 32]
    ELSE c

\* a snake_case name in camelCase: each "_" goes and the letter after it is
\* raised
RECURSIVE to_camel_case(_)
to_camel_case(str) ==
    IF str = <<>> THEN <<>>
    ELSE IF Head(str) = "_" /\ Len(str) > 1
    THEN <<UpperChar(str[2])>> \o to_camel_case(SubSeq(str, 3, Len(str)))
    ELSE <<Head(str)>> \o to_camel_case(Tail(str))

\* the parameters of each command, in the order of its signature
CommandParameters ==
    [read_directory |-> <<kPath>>,
     create_folder |-> <<kPath, kName>>,
     delete_item |-> <<kPath>>,
     rename_item |-> <<kOldPath, kNewName>>,
     copy_item |-> <<kSourcePath, kDestDir>>,
     move_item |-> <<kSourcePath, kDestDir>>,
     search_files |-> <<kDirectory, kQuery>>,
     preview_file |-> <<kPath>>]

\* the argument structs of types.rs as serde serializes them: an object with
\* one key per field, named as the field is
ReadDirArgs(path) == (kPath :> path)
CreateFolderArgs(path, name) == (kPath :> path) @@ (kName :> name)
DeleteItemArgs(path) == (kPath :> path)
RenameItemArgs(old_path, new_name) == (kOldPath :> old_path) @@ (kNewName :> new_name)
CopyItemArgs(source, destination) == (kSource :> source) @@ (kDestination :> destination)
MoveItemArgs(source, destination) == (kSource :> source) @@ (kDestination :> destination)
SearchFilesArgs(directory, query) == (kDirectory :> directory) @@ (kQuery :> query)
PreviewFileArgs(path) == (kPath :> path)

\* the key under which #[tauri::command] looks a parameter up: the name in
\* camelCase, or the name as written where the build keeps snake_case
Conventions == {"camelCase", "snake_case"}

ArgKey(convention, parameter) ==
    IF convention = "camelCase" THEN to_camel_case(parameter) ELSE parameter

\* every parameter of the command has its key in the request
Bound(convention, cmd, args) ==
    \A i \in 1..Len(CommandParameters[cmd]) :
        ArgKey(convention, CommandParameters[cmd][i]) \in DOMAIN args

MissingArgument == "invalid args: missing required key"

\* the value the request binds to the command's i-th parameter
Arg(convention, cmd, args, i) == args[ArgKey(convention, CommandParameters[cmd][i])]

\* invoke(cmd, args): the command runs (`ran` is what it does) if all its
\* parameters are bound, and the request is rejected otherwise
Dispatch(f, convention, cmd, args, ran) ==
    IF ~Bound(convention, cmd, args) THEN [fs |-> f, res |-> Err(MissingArgument)]
    ELSE ran

\* what the service layer is asked to act on
SentPaths == {pHome, pA, pF}
SentNames == {nX, nA}
SentQueries == {<<"a">>}

InitRequests ==
    /\ fs = InitFS
    /\ homeDir = Some(pHome)
    /\ last = [op |-> "none"]
    /\ steps = 0
    /\ calls = NoCalls
    /\ ui = NoUi

\* the service layer sends `args` to the command `cmd`, which does `out`
Send(cmd, args, convention, out) ==
    /\ steps < MaxOps
    /\ steps' = steps + 1
    /\ fs' = out.fs
    /\ last' = [op |-> cmd, request |-> args, convention |-> convention,
                bound |-> Bound(convention, cmd, args), res |-> out.res]
    /\ UNCHANGED <<homeDir, calls, ui>>

load_directory ==
    \E path \in SentPaths, cv \in Conventions :
        LET cmd == "read_directory"
            args == ReadDirArgs(path)
        IN  Send(cmd, args, cv, Dispatch(fs, cv, cmd, args,
                [fs |-> fs, res |-> read_directory(fs, homeDir, Arg(cv, cmd, args, 1))]))

create_new_folder ==
    \E parent_path \in SentPaths, folder_name \in SentNames, cv \in Conventions :
        LET cmd == "create_folder"
            args == CreateFolderArgs(parent_path, folder_name)
        IN  Send(cmd, args, cv, Dispatch(fs, cv, cmd, args,
                create_folder(fs, homeDir, Arg(cv, cmd, args, 1), Arg(cv, cmd, args, 2))))

delete_selected_item ==
    \E item_path \in SentPaths, cv \in Conventions :
        LET cmd == "delete_item"
            args == DeleteItemArgs(item_path)
        IN  Send(cmd, args, cv, Dispatch(fs, cv, cmd, args,
                delete_item(fs, homeDir, Arg(cv, cmd, args, 1))))

rename_selected_item ==
    \E old_path \in SentPaths, new_name \in SentNames, cv \in Conventions :
        LET cmd == "rename_item"
            args == RenameItemArgs(old_path, new_name)
        IN  Send(cmd, args, cv, Dispatch(fs, cv, cmd, args,
                rename_item(fs, homeDir, Arg(cv, cmd, args, 1), Arg(cv, cmd, args, 2))))

copy_selected_item ==
    \E source_path \in SentPaths, dest_dir \in SentPaths, cv \in Conventions :
        LET cmd == "copy_item"
            args == CopyItemArgs(source_path, dest_dir)
        IN  Send(cmd, args, cv, Dispatch(fs, cv, cmd, args,
                copy_item(fs, Arg(cv, cmd, args, 1), Arg(cv, cmd, args, 2))))

move_selected_item ==
    \E source_path \in SentPaths, dest_dir \in SentPaths, cv \in Conventions :
        LET cmd == "move_item"
            args == MoveItemArgs(source_path, dest_dir)
        IN  Send(cmd, args, cv, Dispatch(fs, cv, cmd, args,
                move_item(fs, Arg(cv, cmd, args, 1), Arg(cv, cmd, args, 2))))

search_for ==
    \E directory \in SentPaths, query \in SentQueries, cv \in Conventions :
        LET cmd == "search_files"
            args == SearchFilesArgs(directory, query)
        IN  Send(cmd, args, cv, Dispatch(fs, cv, cmd, args,
                [fs |-> fs,
                 res |-> search_files(fs, homeDir, Arg(cv, cmd, args, 1),
                                      Arg(cv, cmd, args, 2)).res]))

preview_selected_file ==
    \E file_path \in SentPaths, cv \in Conventions :
        LET cmd == "preview_file"
            args == PreviewFileArgs(file_path)
        IN  Send(cmd, args, cv, Dispatch(fs, cv, cmd, args,
                [fs |-> fs, res |-> preview_file(fs, homeDir, Arg(cv, cmd, args, 1)).res]))

NextRequests ==
    \/ load_directory
    \/ create_new_folder
    \/ delete_selected_item
    \/ rename_selected_item
    \/ copy_selected_item
    \/ move_selected_item
    \/ search_for
    \/ preview_selected_file

SpecRequests == InitRequests /\ [][NextRequests]_vars

-----------------------------------------------------------------------------
(* Properties.                                                             *)

\* the spec's error kinds that lib.rs words in more than one way
AccessDeniedKind == {AccessDenied, WriteDenied}
InvalidNameKind == {InvalidFolderName, InvalidFileName}
AlreadyExistsKind == {FolderExists, ItemExists, DestItemExists}

\* the canonical path of the home directory, if the process has one
CanonHome ==
    IF homeDir # None /\ Canonicalize(fs, homeDir[1]).ok
    THEN Some(Canonicalize(fs, homeDir[1]).val)
    ELSE None

\* the canonical path c is the home directory or lies below it
InHome(c) == CanonHome # None /\ IsPrefix(CanonHome[1], c)

\* the canonical path c is an allow-listed root or lies below one
InAllowList(c) == \E root \in allowed_system_paths : IsPrefix(root, c)

\* a name the spec calls invalid: empty, with a path separator, "." or ".."
BadName(name) ==
    \/ name = <<>>
    \/ \E i \in 1..Len(name) : name[i] \in {"/", "\\"}
    \/ name = <<".">>
    \/ name = <<".", ".">>

\* ways to spell paths: the callers' paths, every entry by its own path, the
\* top-level entries reached from home through "..", paths through the link
\* in home and paths through the link to home
Spellings ==
    InPaths
    \cup DOMAIN fs
    \cup {<<nHome, nU, DotDot, DotDot>> \o q : q \in {r \in DOMAIN fs : Len(r) = 1}}
    \cup {pLnk \o q : q \in {<<nPw>>, <<DotDot>>, <<DotDot, nOpt>>}}
    \cup {<<nH>> \o q : q \in {<<>>, <<nA>>, <<nFtxt>>, <<nLnk>>, <<DotDot, nEtc>>}}

\* no component of the canonical path c is ".." or a symbolic link
IsCanonicalForm(f, c) ==
    \A i \in 1..Len(c) :
        /\ c[i] # DotDot
        /\ SubSeq(c, 1, i) \in DOMAIN f
        /\ f[SubSeq(c, 1, i)].kind # "link"

\* the filesystem outside the home directory /home/u: every entry that is
\* not the home directory or below it, a directory without its entry for home
OutsideHome(f) ==
    [p \in {q \in DOMAIN f : ~IsPrefix(pHome, q)} |->
        [f[p] EXCEPT !.entries = SelectSeq(@, LAMBDA n : Append(p, n) # pHome)]]

\* C1: no sequence of commands creates, changes, renames or removes an entry
\* outside the home directory tree: the filesystem outside /home/u stays what
\* it was at the start.
C1_OutsideHomeUntouched == OutsideHome(fs) = OutsideHome(InitFS)

\* C2: in a process that has a home directory, every existing path, however
\* spelled (through "..", through a link inside home), whose canonical form is
\* neither in the home directory tree nor under an allow-listed root is
\* refused with AccessDenied by both validators.
C2_OutsideIsDenied ==
    homeDir # None =>
        \A p \in Spellings :
            LET canonical == Canonicalize(fs, p)
                readable == validate_path(fs, homeDir, p)
                writable == validate_write_path(fs, homeDir, p)
            IN  (/\ canonical.ok
                 /\ ~InHome(canonical.val)
                 /\ ~InAllowList(canonical.val))
                => /\ ~readable.ok
                   /\ readable.err \in AccessDeniedKind
                   /\ ~writable.ok
                   /\ writable.err \in AccessDeniedKind

\* the path validator has just refused the link in home that leads to /etc
C2_Witness ==
    /\ last.op = "validate_readable"
    /\ last.args = <<pLnk>>
    /\ Exists(fs, pLnk)
    /\ ~InHome(Canonicalize(fs, pLnk).val)
    /\ last.res = Err(AccessDenied)

\* C3: in a process that has a home directory, an existing path under an
\* allow-listed root and outside the home directory tree is readable and not
\* writable (AccessDenied), and create_folder, delete_item and rename_item on
\* it fail and leave the filesystem as it was.
C3_AllowListIsReadOnly ==
    homeDir # None =>
        \A p \in Spellings :
            LET canonical == Canonicalize(fs, p)
                writable == validate_write_path(fs, homeDir, p)
                deleted == delete_item(fs, homeDir, p)
            IN  (/\ canonical.ok
                 /\ InAllowList(canonical.val)
                 /\ ~InHome(canonical.val))
                => /\ validate_path(fs, homeDir, p).ok
                   /\ ~writable.ok
                   /\ writable.err \in AccessDeniedKind
                   /\ ~deleted.res.ok
                   /\ deleted.fs = fs
                   /\ \A name \in InNames :
                          LET created == create_folder(fs, homeDir, p, name)
                              renamed == rename_item(fs, homeDir, p, name)
                          IN  /\ ~created.res.ok
                              /\ created.fs = fs
                              /\ ~renamed.res.ok
                              /\ renamed.fs = fs

\* delete_item has just been refused on /opt, which is still there
C3_Witness ==
    /\ last.op = "delete_item"
    /\ last.args = <<pOpt>>
    /\ last.res = Err(WriteDenied)
    /\ validate_path(fs, homeDir, pOpt).ok
    /\ <<nOpt, nTool>> \in DOMAIN fs

\* C4: whatever form the process's home directory value has, every existing
\* path whose canonical form is the home directory or lies below it passes
\* both validators, and the path they return is its canonical form, without
\* ".." and without symbolic links.
C4_HomeIsAccepted ==
    \A p \in Spellings :
        LET canonical == Canonicalize(fs, p)
        IN  (/\ homeDir # None
             /\ canonical.ok
             /\ InHome(canonical.val))
            => /\ validate_path(fs, homeDir, p) = Ok(canonical.val)
               /\ validate_write_path(fs, homeDir, p) = Ok(canonical.val)
               /\ IsCanonicalForm(fs, canonical.val)

\* C5: every command that lists, searches, previews or describes a path does
\* so only for a path the read validator accepts.
C5_ReadsAreValidated ==
    (/\ last.op \in {"read_directory", "search_files", "preview_file", "get_item_info"}
     /\ last.res.ok)
    => validate_path(fs, homeDir, last.args[1]).ok

\* C6: with a writable parent or item, a name that is empty, holds a path
\* separator, or is "." or ".." makes create_folder and rename_item fail with
\* InvalidName and leaves the filesystem as it was.
C6_BadNamesAreRefused ==
    \A p \in Spellings :
        validate_write_path(fs, homeDir, p).ok
        => \A name \in InNames :
               LET created == create_folder(fs, homeDir, p, name)
                   renamed == rename_item(fs, homeDir, p, name)
               IN  BadName(name)
                   => /\ ~created.res.ok
                      /\ created.res.err \in InvalidNameKind
                      /\ created.fs = fs
                      /\ ~renamed.res.ok
                      /\ renamed.res.err \in InvalidNameKind
                      /\ renamed.fs = fs

\* create_folder has just refused the name "../e" in a writable directory
C6_Witness ==
    /\ last.op = "create_folder"
    /\ last.args[2] = nEvil
    /\ validate_write_path(fs, homeDir, last.args[1]).ok
    /\ last.res = Err(InvalidFolderName)

\* C7: with a writable parent and a valid name, create_folder fails with
\* AlreadyExists when parent/name is already a file or a directory, and
\* changes nothing; right after a successful create_folder the same call
\* fails with AlreadyExists.
C7_ExistingFolderIsRefused ==
    /\ \A p \in Spellings :
           validate_write_path(fs, homeDir, p).ok
           => \A name \in InNames :
                  LET created == create_folder(fs, homeDir, p, name)
                  IN  (/\ ~BadName(name)
                       /\ Exists(fs, Append(Canonicalize(fs, p).val, name)))
                      => /\ ~created.res.ok
                         /\ created.res.err \in AlreadyExistsKind
                         /\ created.fs = fs
    /\ (last.op = "create_folder" /\ last.res.ok)
       => LET again == create_folder(fs, homeDir, last.args[1], last.args[2])
          IN  /\ ~again.res.ok
              /\ again.res.err \in AlreadyExistsKind
              /\ again.fs = fs

\* the second of two create_folder calls for /home/u/a/x, which only the
\* first can have made, has just failed
C7_Witness ==
    /\ steps = 2
    /\ last.op = "create_folder"
    /\ last.args = <<pA, nX>>
    /\ last.res = Err(FolderExists)
    /\ IsDir(fs, <<nHome, nU, nA, nX>>)

\* C8: with a writable item and a valid name, rename_item onto a name that an
\* entry of the item's directory already has fails with AlreadyExists and
\* leaves the filesystem, the item and that entry included, as it was.
C8_RenameOntoSiblingIsRefused ==
    \A p \in Spellings :
        validate_write_path(fs, homeDir, p).ok
        => \A name \in InNames :
               LET canonical == Canonicalize(fs, p).val
                   renamed == rename_item(fs, homeDir, p, name)
               IN  (/\ ~BadName(name)
                    /\ canonical # <<>>
                    /\ Append(Parent(canonical), name) \in DOMAIN fs)
                   => /\ ~renamed.res.ok
                      /\ renamed.res.err \in AlreadyExistsKind
                      /\ renamed.fs = fs

\* C9: a search that succeeds returns at most 1000 entries.
C9_AtMostThousandResults ==
    (last.op = "search_files" /\ last.res.ok) => Len(last.res.val) <= 1000

\* C10: the preview of a readable regular file whose extension is in the text
\* or the image table fails with TooLarge exactly when the file is larger
\* than 10 * 1024 * 1024 bytes (a file of exactly that size is previewed),
\* and a preview that fails so has read none of the file's content.
C10_TooLargeAboveTenMiB ==
    last.op = "preview_file" =>
        LET file_path == validate_path(fs, homeDir, last.args[1])
        IN  (file_path.ok /\ IsFile(fs, file_path.val)) =>
                LET size == fs[file_path.val].size
                    pieces == Split(Last(file_path.val), ".")
                    extension == to_lowercase(pieces[Len(pieces)])
                IN  (extension \in TextExtensions \cup ImageExtensions) =>
                        /\ (last.res = Err(TooLarge)) <=> (size > 10 * 1024 * 1024)
                        /\ (size <= 10 * 1024 * 1024) => last.res.ok
                        /\ (last.res = Err(TooLarge)) => (last.reads = <<>>)

\* the preview of an image one byte over the limit has just failed
C10_Witness ==
    /\ last.op = "preview_file"
    /\ last.args = <<Append(pHome, nPpng)>>
    /\ IsFile(fs, Append(pHome, nPpng))
    /\ fs[Append(pHome, nPpng)].size = 10 * 1024 * 1024 + 1
    /\ last.res = Err(TooLarge)
    /\ last.reads = <<>>


\* the k-th byte of a file node (its bytes `data`, then zero bytes)
ByteAt(node, k) == IF k <= Len(node.data) THEN node.data[k] ELSE 0

\* the file the last preview_file call was made on, when the path validator
\* accepts the path and it is a regular file
PreviewedFile ==
    LET file_path == validate_path(fs, homeDir, last.args[1])
    IN  IF last.op = "preview_file" /\ file_path.ok /\ IsFile(fs, file_path.val)
        THEN Some(file_path.val)
        ELSE None

\* the lower-cased text after the last "." of a path's last component
ExtensionOf(path) ==
    LET pieces == Split(Last(path), ".")
    IN  to_lowercase(pieces[Len(pieces)])

ReturnedItems ==
    IF last.op = "read_directory" THEN last.res.val.items ELSE last.res.val

\* the same entries in the order they were enumerated in: read_dir order for
\* a listing, traversal order for a search
EnumeratedItems ==
    LET dir == Canonicalize(fs, last.args[1]).val
    IN  IF last.op = "read_directory"
        THEN [i \in 1..Len(fs[dir].entries) |-> EntryItem(fs, Append(dir, fs[dir].entries[i]))]
        ELSE search_directory_recursive(fs, dir, to_lowercase(last.args[2]), <<>>)

\* a string comes before another, or equals it, character code by character
\* code
StrLeq(a, b) == a = b \/ StrLess(a, b)

\* C12: the entries a listing or a search returns are the enumerated ones with
\* every directory before every non-directory, within each group in
\* non-decreasing order of the lower-cased names, and entries whose
\* lower-cased names are equal in enumeration order; the children b.txt, A (a
\* directory), a.txt are listed as A, a.txt, b.txt.
C12_DirectoriesFirstThenByName ==
    (last.op \in {"read_directory", "search_files"} /\ last.res.ok) =>
        LET out == ReturnedItems
            enum == EnumeratedItems
            At(item) == CHOOSE k \in 1..Len(enum) : enum[k] = item
        IN  /\ Len(out) = Len(enum)
            /\ \A k \in 1..Len(enum) : \E i \in 1..Len(out) : out[i] = enum[k]
            /\ \A i, j \in 1..Len(out) :
                   i < j =>
                       /\ ~(~out[i].is_dir /\ out[j].is_dir)
                       /\ out[i].is_dir = out[j].is_dir
                          => /\ StrLeq(to_lowercase(out[i].name), to_lowercase(out[j].name))
                             /\ to_lowercase(out[i].name) = to_lowercase(out[j].name)
                                => At(out[i]) < At(out[j])
            /\ (last.op = "read_directory"
                /\ fs[Canonicalize(fs, last.args[1]).val].entries = <<nBtxt, nUpA, nAtxt>>)
               => [i \in 1..Len(out) |-> out[i].name] = <<nUpA, nAtxt, nBtxt>>

\* the directory with the children b.txt, A, a.txt has just been listed
C12_Witness ==
    /\ last.op = "read_directory"
    /\ last.args = <<pD>>
    /\ fs[pD].entries = <<nBtxt, nUpA, nAtxt>>
    /\ last.res.ok
    /\ Len(last.res.val.items) = 3
    /\ last.res.val.items[1].name = nUpA
    /\ last.res.val.items[1].is_dir


\* the entries of a listing, as a set
ItemSet(listing) == {listing.val.items[i] : i \in 1..Len(listing.val.items)}

\* C13: when create_folder(p, n) has succeeded, listing p succeeds and shows
\* exactly one entry named n, a directory whose path is the one create_folder
\* returned, and every entry p listed before the call is listed still.
C13_CreatedFolderIsListed ==
    [][(last'.op = "create_folder" /\ last'.res.ok /\ steps' = steps + 1) =>
          LET p == last'.args[1]
              n == last'.args[2]
              before == read_directory(fs, homeDir, p)
              after == read_directory(fs', homeDir', p)
              named == {i \in 1..Len(after.val.items) : after.val.items[i].name = n}
          IN  /\ after.ok
              /\ Cardinality(named) = 1
              /\ \A i \in named : /\ after.val.items[i].is_dir
                                  /\ after.val.items[i].path = last'.res.val
              /\ before.ok
              /\ ItemSet(before) \subseteq ItemSet(after)
              /\ ItemSet(after) \ ItemSet(before) = {after.val.items[i] : i \in named}
      ]_vars

\* create_folder has just made x in the directory a, named through the link
\* /h, and the listing of /h/a shows it under its canonical path
C13_Witness ==
    /\ last.op = "create_folder"
    /\ last.args = <<pViaH, nX>>
    /\ last.res = Ok(<<nHome, nU, nA, nX>>)
    /\ read_directory(fs, homeDir, pViaH).ok
    /\ \E i \in 1..Len(read_directory(fs, homeDir, pViaH).val.items) :
           /\ read_directory(fs, homeDir, pViaH).val.items[i].name = nX
           /\ read_directory(fs, homeDir, pViaH).val.items[i].is_dir


\* C14: a search of a readable directory with a query that is empty or all
\* whitespace fails with EmptyQuery and walks no directory.
C14_BlankQueryIsRefused ==
    (/\ last.op = "search_files"
     /\ validate_path(fs, homeDir, last.args[1]).ok
     /\ IsDir(fs, last.args[1])
     /\ \A i \in 1..Len(last.args[2]) : last.args[2][i] \in {" ", "\t", "\n"})
    => /\ last.res = Err(EmptyQuery)
       /\ last.walked = <<>>

\* the search of /opt for a query of a space, a tab and a line feed has just
\* been refused
C14_Witness ==
    /\ last.op = "search_files"
    /\ last.args = <<pOpt, <<" ", "\t", "\n">>>>
    /\ validate_path(fs, homeDir, pOpt).ok
    /\ last.res = Err(EmptyQuery)
    /\ last.walked = <<>>


\* the path q of the tree at src, moved to the tree at dst
Relocated(src, dst, q) == dst \o SubSeq(q, Len(src) + 1, Len(q))

\* the filesystem g holds at dst a copy of the tree f holds at src: the same
\* relative names, directories as directories, files with the same bytes
HoldsCopy(f, g, src, dst) ==
    \A q \in Subtree(f, src) :
        LET to == Relocated(src, dst, q)
            from == Canonicalize(f, q)
        IN  /\ to \in DOMAIN g
            /\ from.ok =>
                   /\ f[from.val].kind = g[to].kind
                   /\ f[from.val].kind = "file"
                      => (g[to].size = f[from.val].size /\ g[to].data = f[from.val].data)
                   /\ f[from.val].kind = "dir"
                      => Len(g[to].entries) = Len(f[from.val].entries)

\* C15: copy_item fails with SourceMissing when the source does not exist,
\* otherwise with DestMissing when the destination is not an existing
\* directory, otherwise with AlreadyExists when the destination has an entry
\* of the source's name, each time changing nothing; otherwise it succeeds,
\* the destination then holds the whole source tree under that name, and the
\* source and every other entry are as they were.
C15_CopyContract ==
    [][(last'.op = "copy_item" /\ steps' = steps + 1) =>
          LET source == last'.args[1]
              dest_dir == last'.args[2]
              src == Canonicalize(fs, source).val
              dst == Append(Canonicalize(fs, dest_dir).val, Last(source))
          IN  IF ~Exists(fs, source)
              THEN last'.res = Err(SourceMissing) /\ fs' = fs
              ELSE IF ~IsDir(fs, dest_dir)
              THEN last'.res = Err(DestMissing) /\ fs' = fs
              ELSE IF dst \in DOMAIN fs
              THEN ~last'.res.ok /\ last'.res.err \in AlreadyExistsKind /\ fs' = fs
              ELSE /\ last'.res.ok
                   /\ HoldsCopy(fs, fs', src, dst)
                   /\ DOMAIN fs' = DOMAIN fs \cup {Relocated(src, dst, q) : q \in Subtree(fs, src)}
                   /\ \A q \in DOMAIN fs :
                          IF q = Parent(dst)
                          THEN fs'[q] = [fs[q] EXCEPT !.entries = Append(@, Last(dst))]
                          ELSE fs'[q] = fs[q]
      ]_vars


\* C16: a move_item whose source exists, whose destination is an existing
\* directory without an entry of the source's name (and not inside the
\* source) succeeds, on one volume and across volumes alike: afterwards the
\* source path is gone and the destination holds the item.
C16_MoveRelocates ==
    [][(last'.op = "move_item" /\ steps' = steps + 1) =>
          LET source == last'.args[1]
              dest_dir == last'.args[2]
              src == LCanon(fs, source).val
              dst == Append(Canonicalize(fs, dest_dir).val, Last(source))
          IN  (/\ Exists(fs, source)
               /\ IsDir(fs, dest_dir)
               /\ dst \notin DOMAIN fs
               /\ ~IsPrefix(src, dst))
              => /\ last'.res.ok
                 /\ src \notin DOMAIN fs'
                 /\ dst \in DOMAIN fs'
                 /\ fs'[dst] = fs[src]
      ]_vars


\* C17: when delete_item succeeds, the entry at the canonical form of its path
\* and everything below it are gone and every other entry is as it was (its
\* directory has lost that one name); when the path is not writable or does
\* not exist, delete_item returns an error and the filesystem is as it was.
C17_DeleteFrame ==
    [][(last'.op = "delete_item" /\ steps' = steps + 1) =>
          LET path == last'.args[1]
              gone == Canonicalize(fs, path).val
          IN  /\ last'.res.ok
                 => /\ Exists(fs, path)
                    /\ DOMAIN fs' = DOMAIN fs \ Subtree(fs, gone)
                    /\ \A q \in DOMAIN fs' :
                           IF q = Parent(gone)
                           THEN fs'[q] = [fs[q] EXCEPT !.entries =
                                             SelectSeq(@, LAMBDA n : n # Last(gone))]
                           ELSE fs'[q] = fs[q]
              /\ (~Exists(fs, path) \/ ~validate_write_path(fs, homeDir, path).ok)
                 => (~last'.res.ok /\ fs' = fs)
      ]_vars

\* delete_item has just removed the home directory with all it held, and
\* /etc/pw is still there
C17_Witness ==
    /\ last.op = "delete_item"
    /\ last.args = <<pHome>>
    /\ last.res.ok
    /\ pHome \notin DOMAIN fs
    /\ pF \notin DOMAIN fs
    /\ <<nHome>> \in DOMAIN fs
    /\ <<nEtc, nPw>> \in DOMAIN fs


\* the FileItems the last command returned
ReturnedEntries ==
    IF last.op \notin {"read_directory", "search_files", "get_item_info"} \/ ~last.res.ok
    THEN {}
    ELSE IF last.op = "get_item_info" THEN {last.res.val}
    ELSE {ReturnedItems[i] : i \in 1..Len(ReturnedItems)}

\* the command read the metadata of the entry: get_item_info fails when it
\* cannot, a listing and a search go on without
MetadataWasRead(item) == last.op = "get_item_info" \/ LExists(fs, item.path)

\* C19 (as stated): in every FileItem a listing, a search or get_item_info
\* returns, size is present exactly when is_dir is false, also for an entry
\* whose metadata could not be read.
C19_SizeIffNotDirectory ==
    \A item \in ReturnedEntries : (item.size # None) <=> ~item.is_dir

\* C19 (amended): in every FileItem a listing, a search or get_item_info
\* returns, no directory carries a size, and a non-directory carries one
\* exactly when its metadata was read; an entry whose metadata could not be
\* read is returned with neither size nor modified.
C19_SizeIffReadableNonDirectory ==
    \A item \in ReturnedEntries :
        /\ (item.size # None) <=> (~item.is_dir /\ MetadataWasRead(item))
        /\ ~MetadataWasRead(item) => item.size = None /\ item.modified = None

\* a listing has returned a directory without a size, a file with one, and an
\* entry whose metadata could not be read
C19_Witness ==
    /\ last.op = "read_directory"
    /\ last.res.ok
    /\ \E x, y, z \in ReturnedEntries :
           /\ x.is_dir /\ x.size = None
           /\ ~y.is_dir /\ y.size # None
           /\ fs[z.path].kind = "stale" /\ ~z.is_dir /\ z.size = None


\* the FilePreview the last preview_file call returned has one of the three
\* (file_type, encoding) pairs, and each file_type says what the file is
PreviewPairIsKnown ==
    (last.op = "preview_file" /\ last.res.ok) =>
        LET preview == last.res.val
            node == fs[PreviewedFile[1]]
            extension == ExtensionOf(PreviewedFile[1])
        IN  /\ PreviewedFile # None
            /\ <<preview.file_type, preview.encoding>>
                   \in {<<"text", "text">>, <<"binary", "hex">>, <<"image", "base64">>}
            /\ preview.file_type = "text" => extension \in TextExtensions /\ IsUtf8(node)
            /\ preview.file_type = "binary" => extension \in TextExtensions /\ ~IsUtf8(node)
            /\ preview.file_type = "image" => extension \in ImageExtensions

\* the last preview_file call was made on a file with an extension of
\* neither table
PreviewedUnsupported ==
    /\ PreviewedFile # None
    /\ ExtensionOf(PreviewedFile[1]) \notin TextExtensions \cup ImageExtensions

\* C20 (as stated): every FilePreview has a (file_type, encoding) pair among
\* ("text","text"), ("binary","hex"), ("image","base64"), "binary" only for a
\* file with a text extension that is not UTF-8; a file with an extension of
\* neither table gets the error UnsupportedType and no preview.
C20_UnsupportedWhateverTheSize ==
    /\ PreviewPairIsKnown
    /\ PreviewedUnsupported => last.res = Err(UnsupportedType)

\* C20 (amended): every FilePreview has a (file_type, encoding) pair among
\* ("text","text"), ("binary","hex"), ("image","base64"), "binary" only for a
\* file with a text extension that is not UTF-8; a file with an extension of
\* neither table gets no preview: the error UnsupportedType when it is of at
\* most 10 MiB, the error TooLarge when it is larger.
C20_PreviewKinds ==
    /\ PreviewPairIsKnown
    /\ PreviewedUnsupported =>
           last.res = IF fs[PreviewedFile[1]].size <= 10 * 1024 * 1024
                      THEN Err(UnsupportedType)
                      ELSE Err(TooLarge)

\* p.mp3, of exactly 10 MiB, has been refused as an unsupported type
C20_Witness ==
    /\ PreviewedFile = Some(Append(pHome, nPmp3))
    /\ fs[Append(pHome, nPmp3)].size = 10 * 1024 * 1024
    /\ last.res = Err(UnsupportedType)


\* the last command was a search that went through: the directory it was
\* made on, as the validator resolved it
SearchedDir ==
    IF last.op = "search_files" /\ last.res.ok
    THEN Some(validate_path(fs, homeDir, last.args[1]).val)
    ELSE None

\* the entries in and below the directory `dir`, itself left out
ProperDescendants(dir) == Subtree(fs, dir) \ {dir}

\* the name of an entry contains the query, both lower-cased
NameMatches(p, query) == Contains(to_lowercase(Last(p)), to_lowercase(query))

\* where the entry a returned item describes lives
LocationOf(item) == LCanon(fs, item.path).val

\* C21: a search of a directory whose directories can all be opened and that
\* holds fewer than 1000 matching names returns the entries in and below the
\* directory (at any depth, those inside matching directories too) whose
\* lower-cased name contains the lower-cased query, each of them once, and
\* never the directory itself.
C21_ExactlyTheMatchingDescendants ==
    SearchedDir # None =>
        LET dir == SearchedDir[1]
            out == last.res.val
            matching == {p \in ProperDescendants(dir) : NameMatches(p, last.args[2])}
        IN  (/\ \A p \in Subtree(fs, dir) : fs[p].kind # "locked"
             /\ Cardinality(matching) < 1000)
            => /\ {LocationOf(out[i]) : i \in 1..Len(out)} = matching
               /\ \A i, j \in 1..Len(out) :
                      LocationOf(out[i]) = LocationOf(out[j]) => i = j
               /\ \A i \in 1..Len(out) : LocationOf(out[i]) # dir


\* the directories below `dir` that the process cannot open
LockedBelow(dir) == {p \in ProperDescendants(dir) : fs[p].kind = "locked"}

\* C22: a search of a readable directory with a query that is not blank
\* succeeds whether or not directories below it can be opened, and (fewer
\* than 1000 names matching) returns every matching entry of the directories
\* that can be opened and none of those that cannot: a directory that cannot
\* be opened is passed over and costs no result collected before or after it.
C22_UnreadableDirectoryIsSkipped ==
    LET dir_path == validate_path(fs, homeDir, last.args[1])
    IN  (/\ last.op = "search_files"
         /\ dir_path.ok
         /\ IsDir(fs, dir_path.val)
         /\ ~TrimIsEmpty(last.args[2]))
        => /\ last.res.ok
           /\ LET out == last.res.val
                   met == {p \in DescendantsOf(fs, dir_path.val) :
                              NameMatches(p, last.args[2])}
               IN  /\ {out[i].path : i \in 1..Len(out)} = met
                   /\ \A i \in 1..Len(out), p \in LockedBelow(dir_path.val) :
                          ~(IsPrefix(p, out[i].path) /\ p # out[i].path)

\* /home/u/s has been searched for "w" while its directory k could not be
\* opened: PW and PW/pw, met before k, are returned, k/w2 is not
C22_Witness ==
    /\ last.op = "search_files"
    /\ last.args = <<pS, <<"w">> >>
    /\ fs[Append(pS, nK)].kind = "locked"
    /\ last.res.ok
    /\ \E i \in 1..Len(last.res.val) : last.res.val[i].path = <<nHome, nU, nS, nPW, nPw>>
    /\ \A i \in 1..Len(last.res.val) : last.res.val[i].path # <<nHome, nU, nS, nK, nW2>>


\* C23: a validator called on a path that does not exist or cannot be
\* resolved (a dangling symbolic link is one) fails with InvalidPath, whatever
\* the home directory is and wherever the path points; create_folder,
\* delete_item and rename_item given such a path fail with that error and
\* leave the filesystem as it was.
C23_MissingPathIsInvalid ==
    [][(/\ steps' = steps + 1
        /\ last'.op \in {"validate_readable", "validate_writable",
                         "create_folder", "delete_item", "rename_item"}
        /\ ~Exists(fs, last'.args[1]))
       => (last'.res = Err(InvalidPath) /\ fs' = fs)
      ]_vars

\* with no home directory known, delete_item has refused the dangling link
\* /home/u/dl as an invalid path, and the link is still there
C23_Witness ==
    /\ last.op = "delete_item"
    /\ last.args = <<pDl>>
    /\ homeDir = None
    /\ fs[pDl].kind = "link"
    /\ ~Exists(fs, pDl)
    /\ last.res = Err(InvalidPath)


\* C24: copy_item returns, and whatever it returns, every entry it has made
\* is the copy of an entry the source held before the call, also when the
\* destination directory is the source or lies below it: the copy does not
\* go down into the directory it has just made inside the source.
C24_CopyStaysOutOfItsDestination ==
    [][(/\ last'.op = "copy_item"
        /\ steps' = steps + 1
        /\ IsDir(fs, last'.args[1])
        /\ IsDir(fs, last'.args[2]))
       => LET src == Canonicalize(fs, last'.args[1]).val
              dst == Append(Canonicalize(fs, last'.args[2]).val, Last(last'.args[1]))
          IN  /\ last'.res.ok \/ last'.res.err # ""
              /\ \A q \in DOMAIN fs' \ DOMAIN fs :
                     /\ IsPrefix(dst, q)
                     /\ (src \o SubSeq(q, Len(dst) + 1, Len(q))) \in DOMAIN fs
      ]_vars


\* the directories a search from `dir` calls search_directory_recursive on
\* while fewer than SearchCap results are collected: `dir`, and every entry
\* met that is a directory
EnteredDirs(dir) == {dir} \cup {d \in DescendantsOf(fs, dir) : IsDir(fs, d)}

\* C25: a search in which fewer than 1000 names match has a recursion depth
\* bounded by the filesystem: no call of search_directory_recursive is made
\* on a directory that a call still in progress is already searching, so the
\* depth never exceeds the number of directories, also when a directory link
\* in the searched tree points back to an ancestor.
C25_NoDirectoryWithinItself ==
    (SearchedDir # None /\ Len(last.res.val) < SearchCap) =>
        \A d \in EnteredDirs(SearchedDir[1]) :
            \A k \in Len(SearchedDir[1])..(Len(d) - 1) :
                Canonicalize(fs, SubSeq(d, 1, k)).val # Canonicalize(fs, d).val


\* C26: every item a search returns is one the read validator accepts (or a
\* link that leads nowhere): its canonical location is in the home directory
\* or under an allow-listed root, also when the searched tree holds links to
\* directories outside them, and no directory the validator would reject is
\* entered.
C26_SearchStaysInsideTheBoundary ==
    SearchedDir # None =>
        /\ \A i \in 1..Len(last.res.val) :
               LET seen == validate_path(fs, homeDir, last.res.val[i].path)
               IN  seen.ok \/ seen.err = InvalidPath
        /\ Len(last.res.val) < SearchCap
           => \A d \in EnteredDirs(SearchedDir[1]) : validate_path(fs, homeDir, d).ok


\* the calls that have returned success
Succeeded == {c \in CallIds : calls[c].pc = "done" /\ calls[c].res.ok}

C28_ParentIsListable ==
    (last.op = "read_directory" /\ last.res.ok /\ last.res.val.parent_path # None) =>
        read_directory(fs, homeDir, last.res.val.parent_path[1]).ok


\* C29: in the window, after any sequence of key presses, clicks, sidebar
\* navigations and directory loads that complete or fail, a focused column
\* index is the index of a column, and navigate_right has never taken
\* columns.len() - 1 of an empty column list.
C29_FocusedColumnExists ==
    ui # NoUi =>
        /\ ui.focused_column_index # None => ui.focused_column_index[1] < Len(ui.columns)
        /\ ~ui.underflow


\* the names of a command's parameters
ParameterNames(cmd) == {CommandParameters[cmd][i] : i \in 1..Len(CommandParameters[cmd])}

\* C30: in every request the service layer sends, the argument names are the
\* parameter names of the command it is sent to, and the command is
\* dispatched with all its arguments bound; a paste reaches copy_item or
\* move_item with source_path and dest_dir set.
C30_RequestsNameTheParameters ==
    "request" \in DOMAIN last =>
        /\ DOMAIN last.request = ParameterNames(last.op)
        /\ last.bound

====
